---- MODULE Spec2Model ----
(***************************************************************************)
(* Queue management operations of the mail server's outbound queue:        *)
(* JMAP::handle_manage_queue in crates/jmap/src/api/management/queue.rs.   *)
(* The store holds queued messages (key Message(id)) and their position in *)
(* the scheduler's ordering (key MessageEvent(due, id)); last records the  *)
(* request just served with its writes and its sends on queue_tx;          *)
(* inflight holds the handlers that have read a message and not yet saved  *)
(* it; codec holds a report header, its external id and what the id        *)
(* decodes to; reports holds the stored report records; sched holds the    *)
(* queue manager's loop: its timer and the Reload waiting in its channel.  *)
(* Strings are sequences of characters, so that str::contains and          *)
(* to_lowercase are computed, not assumed.                                 *)
(***************************************************************************)
EXTENDS Integers, Sequences, FiniteSets, TLC

VARIABLES now, store, events, last, inflight, codec, reports, sched

vars == <<now, store, events, last, inflight, codec, reports, sched>>

----------------------------------------------------------------------------
\* Bounds of the model.

\* The clock runs from 1 to MaxNow.
MaxNow == 2

\* Width of the unsigned timestamps (u64 in the program).
TimeBits == 6

----------------------------------------------------------------------------
\* Program constants.

\* domain.expires = time + 10
ExpiresWindow == 10

----------------------------------------------------------------------------
\* Option<T>: None is the empty sequence, Some(x) the one-element sequence.
None == <<>>
Some(x) == <<x>>
IsSome(o) == o # None

\* Option::unwrap_or_default for u64
UnwrapOrDefault(o) == IF IsSome(o) THEN o[1] ELSE 0

U64Modulus == 2 ^ TimeBits

\* `x as u64` of a signed value.
AsU64(x) == x % U64Modulus

Min(S) == CHOOSE x \in S : \A y \in S : x <= y

\* str::contains: sub occurs in s as a contiguous substring.
Contains(s, sub) ==
    \E i \in 0..(Len(s) - Len(sub)) : SubSeq(s, i + 1, i + Len(sub)) = sub

LowerChar(c) == IF c = "A" THEN "a" ELSE IF c = "B" THEN "b" ELSE c

\* str::to_lowercase
ToLower(s) == [i \in 1..Len(s) |-> LowerChar(s[i])]

Pending == {"Scheduled", "TemporaryFailure"}
Terminal == {"Completed", "PermanentFailure"}
StatusKinds == Pending \cup Terminal

\* A test that takes every status but Completed for pending.
IsPending_NotCompleted(status) == status # "Completed"

\* matches!(status, Status::Scheduled | Status::TemporaryFailure(_))
IsPending(status) == status \in Pending

\* A test that forgets PermanentFailure.
IsDone_CompletedOnly(status) == status.kind = "Completed"

\* matches!(rcpt.status, Status::PermanentFailure(_) | Status::Completed(_))
IsDone(status) == status.kind \in Terminal

----------------------------------------------------------------------------
\* Request parameters.

\* impl FromStr for Timestamp. s is the outcome of DateTime::parse_rfc3339 on
\* the parameter text: None when it is no RFC 3339 date, else the signed
\* to_timestamp() value, which `as u64` reinterprets.
TimestampFromStr(s, clock) ==
    IF IsSome(s) /\ AsU64(s[1]) >= clock THEN Some(AsU64(s[1])) ELSE None

\* params.parse::<Timestamp>(name): None when the parameter is absent or
\* from_str fails.
ParseTimestamp(param, clock) ==
    IF IsSome(param) THEN TimestampFromStr(param[1], clock) ELSE None

\* params.parse::<Timestamp>("at").map(|t| t.into_inner()).unwrap_or_else(now)
RescheduleTime(param, clock) ==
    LET t == ParseTimestamp(param, clock) IN IF IsSome(t) THEN t[1] ELSE clock

\* queue_id.parse().unwrap_or_default(): raw is the outcome of str::parse on
\* the decoded path element, Some(n) for the decimal text of a u64.
ParseQueueId(raw) == UnwrapOrDefault(raw)

----------------------------------------------------------------------------
\* queue::Message queries and storage operations (smtp crate).

\* next_event of one domain: retry.due capped to expires, or notify.due when
\* it precedes expires; nothing for a terminal domain.
DomainNextEvent(d) ==
    IF IsPending(d.status)
    THEN {Min({d.retry.due, d.expires})}
         \cup (IF d.notify.due < d.expires THEN {d.notify.due} ELSE {})
    ELSE {}

\* Message::next_event: the minimum over the domains, None if all are terminal.
NextEvent(message) ==
    LET dues == UNION {DomainNextEvent(message.domains[i]) :
                          i \in 1..Len(message.domains)}
    IN IF dues = {} THEN None ELSE Some(Min(dues))

\* read_message(id)
ReadMessage(st, id) == IF id \in DOMAIN st THEN st[id] ELSE None

\* The write batch of Message::save_changes(prev_event, next_event): clear
\* MessageEvent(prev_event, id), set MessageEvent(next_event, id), set
\* Message(id).
SaveChangesEvents(ev, id, prev_event, next_event) ==
    (ev \ {<<prev_event, id>>}) \cup {<<next_event, id>>}

SaveChangesStore(st, id, message) == [st EXCEPT ![id] = Some(message)]

\* The write batch of Message::remove(prev_event): clear
\* MessageEvent(prev_event, id) and Message(id).
RemoveEvents(ev, id, prev_event) == ev \ {<<prev_event, id>>}

RemoveStore(st, id) == [st EXCEPT ![id] = None]

----------------------------------------------------------------------------
\* ("messages", Some(queue_id), PATCH): reschedule.

\* A selection that forgets the filter.
RescheduleSelects_AnyName(domain, item) == IsPending(domain.status)

\* The condition of the loop body: the domain is pending and its name
\* contains the filter, if one is given.
RescheduleSelects(domain, item) ==
    /\ IsPending(domain.status)
    /\ (IsSome(item) => Contains(domain.domain, item[1]))

\* A clamp that extends the deadline it finds instead of restarting it.
RescheduleExpires_Extend(expires, time) ==
    IF expires > time THEN expires + ExpiresWindow ELSE expires

\* if domain.expires > time { domain.expires = time + 10; }
RescheduleExpires(expires, time) ==
    IF expires > time THEN time + ExpiresWindow ELSE expires

\* A loop body that also restarts the retry count of the domain.
RescheduleDomain_ResetRetry(domain, time, item) ==
    IF RescheduleSelects(domain, item)
    THEN [domain EXCEPT !.retry.due = time, !.retry.inner = 0,
                        !.expires = RescheduleExpires(domain.expires, time)]
    ELSE domain

\* One iteration of `for domain in &mut message.domains`.
RescheduleDomain(domain, time, item) ==
    IF RescheduleSelects(domain, item)
    THEN [domain EXCEPT !.retry.due = time,
                        !.expires = RescheduleExpires(domain.expires, time)]
    ELSE domain

RescheduleMessage(message, time, item) ==
    [message EXCEPT !.domains =
        [i \in 1..Len(message.domains) |->
            RescheduleDomain(message.domains[i], time, item)]]

\* found
RescheduleFound(message, item) ==
    \E i \in 1..Len(message.domains) : RescheduleSelects(message.domains[i], item)

----------------------------------------------------------------------------
\* ("messages", Some(queue_id), DELETE): cancel.

\* Status::PermanentFailure(HostResponse { .. message: "Delivery canceled." })
Canceled == [kind |-> "PermanentFailure", code |-> 0, message |-> "Delivery canceled."]

\* A match on the address as given instead of its lower-case form.
CancelSelects_Address(rcpt, item) == Contains(rcpt.address, item)

\* rcpt.address_lcase.contains(item)
CancelSelects(rcpt, item) == Contains(rcpt.address_lcase, item)

\* A loop body that leaves a recipient that is not pending as it is.
CancelRcpt_PendingOnly(rcpt, item) ==
    IF CancelSelects(rcpt, item) /\ IsPending(rcpt.status.kind)
    THEN [rcpt EXCEPT !.status = Canceled]
    ELSE rcpt

\* One iteration of `for rcpt in &mut message.recipients`.
CancelRcpt(rcpt, item) ==
    IF CancelSelects(rcpt, item) THEN [rcpt EXCEPT !.status = Canceled] ELSE rcpt

CancelRecipients(message, item) ==
    [message EXCEPT !.recipients =
        [i \in 1..Len(message.recipients) |-> CancelRcpt(message.recipients[i], item)]]

\* A found that is set by every recipient looked at.
CancelFound_AnyRecipient(message, item) == Len(message.recipients) > 0

\* found
CancelFound(message, item) ==
    \E i \in 1..Len(message.recipients) : CancelSelects(message.recipients[i], item)

\* total_rcpt == total_completed for the domain at domain_idx.
AllRcptDone(message, domain_idx) ==
    LET mine == {i \in 1..Len(message.recipients) :
                    message.recipients[i].domain_idx = domain_idx}
        done == {i \in mine : IsDone(message.recipients[i].status)}
    IN Cardinality(mine) = Cardinality(done)

\* A recomputation that marks nothing.
CompleteDomain_Skip(message, domain_idx) == message.domains[domain_idx]

\* A completion that also clears the retry state of the domain.
CompleteDomain_ResetRetry(message, domain_idx) ==
    LET domain == message.domains[domain_idx]
    IN IF IsPending(domain.status) /\ AllRcptDone(message, domain_idx)
       THEN [domain EXCEPT !.status = "Completed", !.retry.inner = 0]
       ELSE domain

\* "Mark as completed domains without any pending deliveries"
CompleteDomain(message, domain_idx) ==
    LET domain == message.domains[domain_idx]
    IN IF IsPending(domain.status) /\ AllRcptDone(message, domain_idx)
       THEN [domain EXCEPT !.status = "Completed"]
       ELSE domain

CompleteDomains(message) ==
    [message EXCEPT !.domains =
        [i \in 1..Len(message.domains) |-> CompleteDomain(message, i)]]

\* A test that forgets TemporaryFailure.
HasPendingDomain_ScheduledOnly(message) ==
    \E i \in 1..Len(message.domains) : message.domains[i].status = "Scheduled"

\* message.domains.iter().any(|domain| matches!(domain.status, ..pending..))
HasPendingDomain(message) ==
    \E i \in 1..Len(message.domains) : IsPending(message.domains[i].status)

----------------------------------------------------------------------------
\* The messages the store starts with.

\* The message ids requests can name; the queued message has id 0.
QueueIds == {0, 1}

\* A deadline later than any time + 10 a reschedule can produce from an
\* accepted clock value.
FarExpires == MaxNow + 2 * ExpiresWindow

\* (retry.due, expires, notify.due) a pending domain can start with, by
\* position: expires >= retry.due.
TimeProfiles ==
    << { [due |-> 1, expires |-> 1, notify |-> FarExpires],
         [due |-> 1, expires |-> FarExpires, notify |-> FarExpires] },
       { [due |-> 1, expires |-> FarExpires, notify |-> FarExpires],
         [due |-> 1, expires |-> FarExpires, notify |-> 0] } >>

\* The times of the domains that start terminal.
DoneProfile == [due |-> 1, expires |-> 1, notify |-> FarExpires]

MkDomain(name, kind, tp) ==
    [domain |-> name, status |-> kind,
     retry |-> [due |-> tp.due, inner |-> IF kind = "Scheduled" THEN 0 ELSE 1],
     notify |-> [due |-> tp.notify], expires |-> tp.expires]

\* The delivery response a recipient status carries.
HostStatus(kind) ==
    [kind |-> kind,
     code |-> CASE kind = "Scheduled" -> 0
                [] kind = "Completed" -> 250
                [] kind = "TemporaryFailure" -> 451
                [] OTHER -> 550,
     message |-> CASE kind = "Scheduled" -> ""
                   [] kind = "Completed" -> "OK"
                   [] kind = "TemporaryFailure" -> "Try again later"
                   [] OTHER -> "Mailbox unavailable"]

\* domain_idx counts from 1 here (from 0 in the program).
MkRcpt(address, domain_idx, kind) ==
    [address |-> address, address_lcase |-> ToLower(address),
     domain_idx |-> domain_idx, status |-> HostStatus(kind)]

\* Domain names and recipient addresses (with their domain) by position.
DomainNames == << <<"a", "b">>, <<"b">> >>
RcptAddresses == << <<"A">>, <<"b">>, <<"b", "a">> >>
RcptDomains == <<1, 1, 2>>

\* The statuses each recipient can start with.
RcptKinds == << StatusKinds, {"Scheduled", "Completed"},
                {"Scheduled", "PermanentFailure"} >>

\* What delivery leaves in the store: a pending domain has a recipient that
\* is not done, a completed domain has none, and a message with no pending
\* domain is not stored.
Deliverable(message) ==
    /\ HasPendingDomain(message)
    /\ \A i \in 1..Len(message.domains) :
          (message.domains[i].status = "Completed") <=> AllRcptDone(message, i)

\* A message of nd domains and nd + 1 recipients.
MkMessage(nd, dk, tp, rk) ==
    [domains |-> [i \in 1..nd |-> MkDomain(DomainNames[i], dk[i], tp[i])],
     recipients |-> [i \in 1..(nd + 1) |->
                        MkRcpt(RcptAddresses[i], RcptDomains[i], rk[i])]]

\* The request parameters: the message id (None when it is no number), `at`
\* (None when absent, else the signed instant of its RFC 3339 text) and
\* `filter`.
IdParams == {None} \cup {Some(i) : i \in QueueIds}
AtParams == {None} \cup {Some(Some(t)) : t \in {1, MaxNow}}
RescheduleItems == {None, Some(<<"a">>), Some(<<"A">>)}
CancelItems == {None, Some(<<"a">>), Some(<<"A">>), Some(<<"b">>)}

\* No handler is between its read and its save.
Handlers == {1, 2}
NoHandler == [phase |-> "idle"]
NoHandlers == [h \in Handlers |-> NoHandler]

\* No report id is being encoded or decoded.
NoCodec == [phase |-> "idle"]

\* No report is stored.
NoReports == {}

\* The queue manager is not looked at.
NoScheduler == [phase |-> "off"]

NoRequest == [op |-> "none", id |-> 0, item |-> None, time |-> 0,
              found |-> FALSE, response |-> "none", effects |-> <<>>, again |-> FALSE]

Init ==
    /\ now = 1
    /\ \E id \in {0}, nd \in 1..2 :
          \E dk \in [1..nd -> StatusKinds],
             tp \in [1..nd -> TimeProfiles[1] \cup TimeProfiles[2]],
             rk \in [1..(nd + 1) -> StatusKinds] :
             LET m == MkMessage(nd, dk, tp, rk)
             IN /\ \A i \in 1..(nd + 1) : rk[i] \in RcptKinds[i]
                /\ \A i \in 1..nd : IF IsPending(dk[i]) THEN tp[i] \in TimeProfiles[i]
                                                         ELSE tp[i] = DoneProfile
                /\ Deliverable(m)
                /\ store = [i \in QueueIds |-> IF i = id THEN Some(m) ELSE None]
                /\ events = {<<UnwrapOrDefault(NextEvent(m)), id>>}
    /\ last = NoRequest
    /\ inflight = NoHandlers
    /\ reports = NoReports
    /\ sched = NoScheduler
    /\ codec = NoCodec

----------------------------------------------------------------------------
\* The handlers. last records the request just served: the id it addressed,
\* its response, the filter it applied to the message and, when it changed
\* the message, the time it used and, in program order, its writes to the
\* store and its sends on queue_tx.

\* The write batch of save_changes, in order.
SaveEffects == <<"clear_event", "set_event", "set_message">>

\* The write batch of remove, in order.
RemoveEffects == <<"clear_event", "clear_message">>

\* A handler that sends nothing on queue_tx.
SendReload_Nothing == <<>>

\* self.smtp.inner.queue_tx.send(queue::Event::Reload)
SendReload == <<"send_reload">>

\* json!({"data": true}) after the writes `effects`. time is the time the
\* handler used. again: the request before it was the same operation on the
\* same id with the same filter and time, and matched too.
Found(op, id, item, time, effects) ==
    [op |-> op, id |-> id, item |-> item, time |-> time,
     found |-> TRUE, response |-> "ok", effects |-> effects,
     again |-> /\ last.op = op /\ last.found /\ last.id = id
               /\ last.item = item /\ last.time = time]

\* json!({"data": false})
NoMatch(op, id, item) ==
    [op |-> op, id |-> id, item |-> item, time |-> 0,
     found |-> FALSE, response |-> "ok", effects |-> <<>>, again |-> FALSE]

\* A missing message answered like a filter that matched nothing.
NotFound_AsNoMatch(op, id) ==
    [op |-> op, id |-> id, item |-> None, time |-> 0,
     found |-> FALSE, response |-> "ok", effects |-> <<>>, again |-> FALSE]

\* RequestError::not_found()
NotFound(op, id) ==
    [op |-> op, id |-> id, item |-> None, time |-> 0,
     found |-> FALSE, response |-> "not_found", effects |-> <<>>, again |-> FALSE]

\* The arguments in the other order.
RescheduleSaveArgs_Swapped(prev_event, next_event) == <<next_event, prev_event>>

\* message.save_changes(&self.smtp, prev_event.into(), next_event.into()) of
\* PATCH: the (prev_event, next_event) arguments passed.
RescheduleSaveArgs(prev_event, next_event) == <<prev_event, next_event>>

\* message.save_changes(&self.smtp, next_event.into(), prev_event.into()) of
\* DELETE: the (prev_event, next_event) arguments passed.
CancelSaveArgs(prev_event, next_event) == <<next_event, prev_event>>

\* What the handler sees of save_changes, remove and queue_tx.send: all
\* three results are dropped (`.await;`, `let _ =`). A failed write batch
\* writes nothing.
SaveOutcome(saved) == IF saved THEN SaveEffects ELSE <<"save_failed">>
RemoveOutcome(saved) == IF saved THEN RemoveEffects ELSE <<"remove_failed">>
SendOutcome(sent) == IF sent THEN SendReload ELSE <<"send_failed">>

\* ("messages", Some(queue_id), &Method::PATCH), where the write batch of
\* save_changes commits iff saved and the send on queue_tx succeeds iff sent.
RescheduleWith(idp, atp, itemp, saved, sent) ==
    LET time == RescheduleTime(atp, now)
        id == ParseQueueId(idp)
        read == ReadMessage(store, id)
    IN /\ IF IsSome(read)
          THEN LET message == read[1]
                   prev_event == UnwrapOrDefault(NextEvent(message))
                   found == RescheduleFound(message, itemp)
                   updated == RescheduleMessage(message, time, itemp)
                   next_event == UnwrapOrDefault(NextEvent(updated))
                   args == RescheduleSaveArgs(prev_event, next_event)
               IN IF found
                  THEN /\ store' = IF saved THEN SaveChangesStore(store, id, updated)
                                            ELSE store
                       /\ events' = IF saved
                                    THEN SaveChangesEvents(events, id, args[1], args[2])
                                    ELSE events
                       /\ last' = Found("reschedule", id, itemp, time,
                                        SaveOutcome(saved) \o SendOutcome(sent))
                  ELSE /\ UNCHANGED <<store, events>>
                       /\ last' = NoMatch("reschedule", id, itemp)
          ELSE /\ UNCHANGED <<store, events>>
               /\ last' = NotFound("reschedule", id)
       /\ UNCHANGED now

\* The PATCH handler when the store and the channel work.
Reschedule(idp, atp, itemp) == RescheduleWith(idp, atp, itemp, TRUE, TRUE)

\* The message the DELETE handler holds after its loops: with a filter that
\* matched, the recipients canceled and the domains recomputed; else as read.
CancelUpdated(message, itemp) ==
    IF IsSome(itemp) /\ CancelFound(message, itemp[1])
    THEN CompleteDomains(CancelRecipients(message, itemp[1]))
    ELSE message

\* A DELETE without a filter that spares a message with pending deliveries.
CancelOutcome_SparePending(message, itemp) ==
    IF IsSome(itemp)
    THEN IF CancelFound(message, itemp[1])
         THEN IF HasPendingDomain(CancelUpdated(message, itemp))
              THEN "save" ELSE "remove"
         ELSE "none"
    ELSE IF HasPendingDomain(message) THEN "none" ELSE "remove"

\* A DELETE that saves whatever it changed.
CancelOutcome_AlwaysSave(message, itemp) ==
    IF IsSome(itemp)
    THEN IF CancelFound(message, itemp[1]) THEN "save" ELSE "none"
    ELSE "remove"

\* What the DELETE handler does with the message it read: "save" it, "remove"
\* it, or "none" (found stays false).
CancelOutcome(message, itemp) ==
    IF IsSome(itemp)
    THEN IF CancelFound(message, itemp[1])
         THEN IF HasPendingDomain(CancelUpdated(message, itemp))
              THEN "save" ELSE "remove"
         ELSE "none"
    ELSE "remove"

\* ("messages", Some(queue_id), &Method::DELETE), where the write batch of
\* save_changes or remove commits iff saved.
CancelWith(idp, itemp, saved) ==
    LET id == ParseQueueId(idp)
        read == ReadMessage(store, id)
    IN /\ IF IsSome(read)
          THEN LET message == read[1]
                   prev_event == UnwrapOrDefault(NextEvent(message))
                   updated == CancelUpdated(message, itemp)
                   next_event == UnwrapOrDefault(NextEvent(updated))
                   args == CancelSaveArgs(prev_event, next_event)
                   outcome == CancelOutcome(message, itemp)
               IN CASE outcome = "save" ->
                         /\ store' = IF saved THEN SaveChangesStore(store, id, updated)
                                              ELSE store
                         /\ events' = IF saved
                                      THEN SaveChangesEvents(events, id,
                                                             args[1], args[2])
                                      ELSE events
                         /\ last' = Found("cancel", id, itemp, 0, SaveOutcome(saved))
                    [] outcome = "remove" ->
                         /\ store' = IF saved THEN RemoveStore(store, id) ELSE store
                         /\ events' = IF saved
                                      THEN RemoveEvents(events, id, prev_event)
                                      ELSE events
                         /\ last' = Found("cancel", id, itemp, 0, RemoveOutcome(saved))
                    [] OTHER ->
                         /\ UNCHANGED <<store, events>>
                         /\ last' = NoMatch("cancel", id, itemp)
          ELSE /\ UNCHANGED <<store, events>>
               /\ last' = NotFound("cancel", id)
       /\ UNCHANGED now

\* The DELETE handler when the store works.
Cancel(idp, itemp) == CancelWith(idp, itemp, TRUE)

\* ("messages", Some(queue_id), &Method::GET)
Get(idp) ==
    LET id == ParseQueueId(idp)
        read == ReadMessage(store, id)
    IN /\ last' = IF IsSome(read) THEN Found("get", id, None, 0, <<>>)
                                  ELSE NotFound("get", id)
       /\ UNCHANGED <<now, store, events>>

\* now() advances.
Tick ==
    /\ now < MaxNow
    /\ now' = now + 1
    /\ UNCHANGED <<store, events, last>>

\* The requests are served one at a time and the store works.
Next ==
    \/ /\ \E idp \in IdParams, atp \in AtParams, itemp \in RescheduleItems :
             Reschedule(idp, atp, itemp)
       /\ UNCHANGED <<inflight, codec, reports, sched>>
    \/ /\ \E idp \in IdParams, itemp \in CancelItems : Cancel(idp, itemp)
       /\ UNCHANGED <<inflight, codec, reports, sched>>
    \/ /\ Tick
       /\ UNCHANGED <<inflight, codec, reports, sched>>

Spec == Init /\ [][Next]_vars

\* The three requests that name a message id, served one at a time: the
\* reads among the changes.
LookupItems == {None, Some(<<"a">>)}

LookupNext ==
    \/ /\ \E idp \in IdParams : Get(idp)
       /\ UNCHANGED <<inflight, codec, reports, sched>>
    \/ /\ \E idp \in IdParams, atp \in AtParams, itemp \in LookupItems :
             Reschedule(idp, atp, itemp)
       /\ UNCHANGED <<inflight, codec, reports, sched>>
    \/ /\ \E idp \in IdParams, itemp \in LookupItems : Cancel(idp, itemp)
       /\ UNCHANGED <<inflight, codec, reports, sched>>

LookupSpec == Init /\ [][LookupNext]_vars

\* The requests are served one at a time on the queued message, and a write
\* batch or a send on queue_tx can fail.
FaultIds == {Some(0)}
FaultItems == {None, Some(<<"a">>)}

FaultNext ==
    \/ /\ \E idp \in FaultIds, atp \in AtParams, itemp \in FaultItems,
             saved \in BOOLEAN, sent \in BOOLEAN :
             RescheduleWith(idp, atp, itemp, saved, sent)
       /\ UNCHANGED <<inflight, codec, reports, sched>>
    \/ /\ \E idp \in FaultIds, itemp \in FaultItems, saved \in BOOLEAN :
             CancelWith(idp, itemp, saved)
       /\ UNCHANGED <<inflight, codec, reports, sched>>
    \/ /\ Tick
       /\ UNCHANGED <<inflight, codec, reports, sched>>

FaultSpec == Init /\ [][FaultNext]_vars

----------------------------------------------------------------------------
\* The handlers of concurrent requests: each awaits
\* read_message, works on the copy it got, and awaits save_changes or remove;
\* another handler can run between the two awaits. No lock is taken.

\* PATCH up to `read_message(..).await`: the time and the filter are taken
\* from the parameters, then the message is read.
RescheduleRead(h, idp, atp, itemp) ==
    /\ inflight[h].phase = "idle"
    /\ inflight' = [inflight EXCEPT ![h] =
                       [phase |-> "read", op |-> "reschedule",
                        id |-> ParseQueueId(idp), item |-> itemp,
                        time |-> RescheduleTime(atp, now),
                        read |-> ReadMessage(store, ParseQueueId(idp))]]
    /\ UNCHANGED <<now, store, events, last, codec, reports, sched>>

\* PATCH from the loop over the copy to the response.
RescheduleSave(h) ==
    LET req == inflight[h]
    IN /\ req.phase = "read" /\ req.op = "reschedule"
       /\ IF IsSome(req.read)
          THEN LET message == req.read[1]
                   prev_event == UnwrapOrDefault(NextEvent(message))
                   found == RescheduleFound(message, req.item)
                   updated == RescheduleMessage(message, req.time, req.item)
                   next_event == UnwrapOrDefault(NextEvent(updated))
                   args == RescheduleSaveArgs(prev_event, next_event)
               IN IF found
                  THEN /\ store' = SaveChangesStore(store, req.id, updated)
                       /\ events' = SaveChangesEvents(events, req.id,
                                                      args[1], args[2])
                       /\ last' = Found("reschedule", req.id, req.item, req.time,
                                        SaveEffects \o SendReload)
                  ELSE /\ UNCHANGED <<store, events>>
                       /\ last' = NoMatch("reschedule", req.id, req.item)
          ELSE /\ UNCHANGED <<store, events>>
               /\ last' = NotFound("reschedule", req.id)
       /\ inflight' = [inflight EXCEPT ![h].phase = "done"]
       /\ UNCHANGED <<now, codec, reports, sched>>

\* DELETE up to `read_message(..).await`.
CancelRead(h, idp, itemp) ==
    /\ inflight[h].phase = "idle"
    /\ inflight' = [inflight EXCEPT ![h] =
                       [phase |-> "read", op |-> "cancel",
                        id |-> ParseQueueId(idp), item |-> itemp, time |-> 0,
                        read |-> ReadMessage(store, ParseQueueId(idp))]]
    /\ UNCHANGED <<now, store, events, last, codec, reports, sched>>

\* DELETE from the loops over the copy to the response.
CancelSave(h) ==
    LET req == inflight[h]
    IN /\ req.phase = "read" /\ req.op = "cancel"
       /\ IF IsSome(req.read)
          THEN LET message == req.read[1]
                   prev_event == UnwrapOrDefault(NextEvent(message))
                   updated == CancelUpdated(message, req.item)
                   next_event == UnwrapOrDefault(NextEvent(updated))
                   args == CancelSaveArgs(prev_event, next_event)
                   outcome == CancelOutcome(message, req.item)
               IN CASE outcome = "save" ->
                         /\ store' = SaveChangesStore(store, req.id, updated)
                         /\ events' = SaveChangesEvents(events, req.id,
                                                        args[1], args[2])
                         /\ last' = Found("cancel", req.id, req.item, 0, SaveEffects)
                    [] outcome = "remove" ->
                         /\ store' = RemoveStore(store, req.id)
                         /\ events' = RemoveEvents(events, req.id, prev_event)
                         /\ last' = Found("cancel", req.id, req.item, 0,
                                          RemoveEffects)
                    [] OTHER ->
                         /\ UNCHANGED <<store, events>>
                         /\ last' = NoMatch("cancel", req.id, req.item)
          ELSE /\ UNCHANGED <<store, events>>
               /\ last' = NotFound("cancel", req.id)
       /\ inflight' = [inflight EXCEPT ![h].phase = "done"]
       /\ UNCHANGED <<now, codec, reports, sched>>

\* The requests two concurrent handlers serve, one each, on the queued message.
ConcIds == {Some(0)}
ConcAts == {None, Some(Some(MaxNow))}
ConcItems == {None, Some(<<"a">>)}

ConcNext ==
    \/ \E h \in Handlers, idp \in ConcIds, atp \in ConcAts, itemp \in ConcItems :
          RescheduleRead(h, idp, atp, itemp)
    \/ \E h \in Handlers : RescheduleSave(h)
    \/ \E h \in Handlers, idp \in ConcIds, itemp \in ConcItems :
          CancelRead(h, idp, itemp)
    \/ \E h \in Handlers : CancelSave(h)

ConcSpec == Init /\ [][ConcNext]_vars

----------------------------------------------------------------------------
\* The external id of a queued report: GenerateQueueId::queue_id and
\* parse_queued_report_id.

Digits == <<"0", "1", "2", "3", "4", "5", "6", "7", "8", "9">>

\* The value of a decimal digit character, None for any other character.
DigitValue(c) ==
    IF \E d \in 1..Len(Digits) : Digits[d] = c
    THEN Some((CHOOSE d \in 1..Len(Digits) : Digits[d] = c) - 1)
    ELSE None

\* `{}` of a u64: its decimal digits, without sign or leading zeros.
RECURSIVE FormatU64(_)
FormatU64(n) ==
    IF n < 10 THEN <<Digits[n + 1]>>
    ELSE FormatU64(n \div 10) \o <<Digits[(n % 10) + 1]>>

\* The value of a string of decimal digits read from the left, acc being the
\* value of the digits read so far: None on a character that is no digit and
\* on overflow.
RECURSIVE ParseDigits(_, _)
ParseDigits(s, acc) ==
    IF s = <<>> THEN Some(acc)
    ELSE LET d == DigitValue(Head(s))
         IN IF d = None \/ acc * 10 + d[1] >= U64Modulus
            THEN None
            ELSE ParseDigits(Tail(s), acc * 10 + d[1])

\* str::parse::<u64>().ok(): decimal digits after an optional "+", at least
\* one digit, the value within u64.
ParseU64(s) ==
    LET digits == IF s # <<>> /\ Head(s) = "+" THEN Tail(s) ELSE s
    IN IF digits = <<>> THEN None ELSE ParseDigits(digits, 0)

\* id.split('!'): the parts between the separators, at least one.
RECURSIVE Split(_)
Split(s) ==
    IF \E i \in 1..Len(s) : s[i] = "!"
    THEN LET i == CHOOSE i \in 1..Len(s) :
                     s[i] = "!" /\ \A j \in 1..(i - 1) : s[j] # "!"
         IN <<SubSeq(s, 1, i - 1)>> \o Split(SubSeq(s, i + 1, Len(s)))
    ELSE <<s>>

\* An id that writes due before seq_id.
queue_id_DueFirst(h) ==
    (IF h.class = "DmarcReportHeader" THEN <<"d">> ELSE <<"t">>)
        \o <<"!">> \o h.event.domain
        \o <<"!">> \o FormatU64(h.event.policy_hash)
        \o <<"!">> \o FormatU64(h.event.due)
        \o <<"!">> \o FormatU64(h.event.seq_id)

\* An id that starts with "d" for both classes.
queue_id_OneClass(h) ==
    <<"d">>
        \o <<"!">> \o h.event.domain
        \o <<"!">> \o FormatU64(h.event.policy_hash)
        \o <<"!">> \o FormatU64(h.event.seq_id)
        \o <<"!">> \o FormatU64(h.event.due)

\* format!("d!{}!{}!{}!{}", h.domain, h.policy_hash, h.seq_id, h.due), with
\* "t" for a TlsReportHeader.
queue_id(h) ==
    (IF h.class = "DmarcReportHeader" THEN <<"d">> ELSE <<"t">>)
        \o <<"!">> \o h.event.domain
        \o <<"!">> \o FormatU64(h.event.policy_hash)
        \o <<"!">> \o FormatU64(h.event.seq_id)
        \o <<"!">> \o FormatU64(h.event.due)

\* A decoder that reads 0 for a number it cannot parse.
parse_queued_report_id_DefaultNumbers(id) ==
    LET parts == Split(id)
    IN IF Len(parts) < 5 THEN None
       ELSE LET type_ == parts[1]
                event == [domain |-> parts[2],
                          policy_hash |-> UnwrapOrDefault(ParseU64(parts[3])),
                          seq_id |-> UnwrapOrDefault(ParseU64(parts[4])),
                          due |-> UnwrapOrDefault(ParseU64(parts[5]))]
            IN CASE type_ = <<"d">> ->
                      Some([class |-> "DmarcReportHeader", event |-> event])
                 [] type_ = <<"t">> ->
                      Some([class |-> "TlsReportHeader", event |-> event])
                 [] OTHER -> None

\* parse_queued_report_id: the first five parts of the id; parts after the
\* fifth are not looked at.
parse_queued_report_id(id) ==
    LET parts == Split(id)
    IN IF Len(parts) < 5 THEN None
       ELSE LET type_ == parts[1]
                policy_hash == ParseU64(parts[3])
                seq_id == ParseU64(parts[4])
                due == ParseU64(parts[5])
            IN IF policy_hash = None \/ seq_id = None \/ due = None THEN None
               ELSE LET event == [domain |-> parts[2],
                                  policy_hash |-> policy_hash[1],
                                  seq_id |-> seq_id[1], due |-> due[1]]
                    IN CASE type_ = <<"d">> ->
                              Some([class |-> "DmarcReportHeader", event |-> event])
                         [] type_ = <<"t">> ->
                              Some([class |-> "TlsReportHeader", event |-> event])
                         [] OTHER -> None

\* The report headers: both classes, domain names of one or two characters
\* (none is "!"), and numbers from 0 to the largest u64.
ReportClasses == {"DmarcReportHeader", "TlsReportHeader"}
DomainChars == {"a", "1", "."}
ReportDomains ==
    {<<c>> : c \in DomainChars} \cup {<<c, d>> : c \in DomainChars, d \in DomainChars}
ReportNumbers == {0, 7, 10, U64Modulus - 1}
ReportEvents ==
    [domain : ReportDomains, policy_hash : ReportNumbers,
     seq_id : ReportNumbers, due : ReportNumbers]
ReportHeaders == [class : ReportClasses, event : ReportEvents]

CodecInit ==
    /\ now = 1
    /\ store = [i \in QueueIds |-> None]
    /\ events = {}
    /\ last = NoRequest
    /\ inflight = NoHandlers
    /\ reports = NoReports
    /\ sched = NoScheduler
    /\ \E h \in ReportHeaders : codec = [phase |-> "header", header |-> h]

\* The list of reports gives the header its external id.
Encode ==
    /\ codec.phase = "header"
    /\ codec' = [phase |-> "id", header |-> codec.header,
                 id |-> queue_id(codec.header)]
    /\ UNCHANGED <<now, store, events, last, inflight, reports, sched>>

\* A request names the report by that id.
Decode ==
    /\ codec.phase = "id"
    /\ codec' = [phase |-> "parsed", header |-> codec.header, id |-> codec.id,
                 parsed |-> parse_queued_report_id(codec.id)]
    /\ UNCHANGED <<now, store, events, last, inflight, reports, sched>>

CodecNext == Encode \/ Decode

CodecSpec == CodecInit /\ [][CodecNext]_vars

\* Two report headers side by side. Their domains may hold the separator
\* and digits, their numbers share leading digits, so that the fields of one
\* id can be read as other fields of another.
PairDomains ==
    {<<>>, <<"1">>, <<"!">>, <<"1", "!">>, <<"!", "1">>, <<"1", "!", "1">>}
PairNumbers == {1, 11}
PairHeaders ==
    [class : ReportClasses,
     event : [domain : PairDomains, policy_hash : PairNumbers,
              seq_id : PairNumbers, due : PairNumbers]]

PairInit ==
    /\ now = 1
    /\ store = [i \in QueueIds |-> None]
    /\ events = {}
    /\ last = NoRequest
    /\ inflight = NoHandlers
    /\ reports = NoReports
    /\ sched = NoScheduler
    /\ \E l \in PairHeaders, r \in PairHeaders :
          codec = [phase |-> "pair", left |-> l, right |-> r]

\* The list of reports gives both headers their external ids.
EncodePair ==
    /\ codec.phase = "pair"
    /\ codec' = [phase |-> "ids", left |-> codec.left, right |-> codec.right,
                 left_id |-> queue_id(codec.left),
                 right_id |-> queue_id(codec.right)]
    /\ UNCHANGED <<now, store, events, last, inflight, reports, sched>>

PairNext == EncodePair

PairSpec == PairInit /\ [][PairNext]_vars

\* The id texts a request can carry: one to six fields joined by "!". The
\* first is a class letter or not, the second a domain, the others decimal
\* numbers or not: signed, with a leading zero, empty, negative, no number
\* at all, or one more than the largest u64.
TextClasses == {<<"d">>, <<"t">>, <<"x">>, <<>>}
TextDomains == {<<"a">>, <<>>}
TextNumbers ==
    {<<"7">>, <<"+", "7">>, <<"0", "7">>, <<>>, <<"-", "1">>, <<"x">>,
     FormatU64(U64Modulus)}
\* The five fields and one more after them, and every text that stops
\* earlier.
FullTexts ==
    {<<c, d, p, q, u, <<"7">> >> :
        c \in TextClasses, d \in TextDomains,
        p \in TextNumbers, q \in TextNumbers, u \in TextNumbers}
TextFields == {SubSeq(f, 1, n) : f \in FullTexts, n \in 1..6}

\* The fields with a "!" between each two.
RECURSIVE Join(_)
Join(f) ==
    IF Len(f) = 1 THEN f[1] ELSE f[1] \o <<"!">> \o Join(Tail(f))

TextInit ==
    /\ now = 1
    /\ store = [i \in QueueIds |-> None]
    /\ events = {}
    /\ last = NoRequest
    /\ inflight = NoHandlers
    /\ reports = NoReports
    /\ sched = NoScheduler
    /\ \E f \in TextFields :
          codec = [phase |-> "text", fields |-> f, id |-> Join(f)]

\* A request names a report by that text.
DecodeText ==
    /\ codec.phase = "text"
    /\ codec' = [phase |-> "decoded", fields |-> codec.fields, id |-> codec.id,
                 parsed |-> parse_queued_report_id(codec.id)]
    /\ UNCHANGED <<now, store, events, last, inflight, reports, sched>>

TextNext == DecodeText

TextSpec == TextInit /\ [][TextNext]_vars

----------------------------------------------------------------------------
\* ("messages", None, GET) and ("reports", None, GET): the lists.

\* usize is 64 bits wide, as u64.
UsizeModulus == U64Modulus

\* usize::saturating_sub
SaturatingSub(a, b) == IF a > b THEN a - b ELSE 0

\* `a * b` of two usize in a build without overflow checks.
WrappingMul(a, b) == (a * b) % UsizeModulus

\* `a * b` overflows usize: a panic in a build with overflow checks.
MulOverflows(a, b) == a * b >= UsizeModulus

\* let mut offset = page.saturating_sub(1) * limit
ListOffset(page, limit) == WrappingMul(SaturatingSub(page, 1), limit)

\* The counters and the result of a scan before its first record; failed:
\* the closure returned Err.
ScanStart(offset) ==
    [offset |-> offset, total |-> 0, total_returned |-> 0,
     result |-> <<>>, failed |-> FALSE]

\* The body of `if matches { ... }`: skip offset matches, hand out up to
\* limit of them (all when limit is 0), count every one.
PageStep(acc, limit, item) ==
    IF acc.offset = 0
    THEN IF limit = 0 \/ acc.total_returned < limit
         THEN [acc EXCEPT !.result = Append(@, item),
                          !.total_returned = @ + 1, !.total = @ + 1]
         ELSE [acc EXCEPT !.total = @ + 1]
    ELSE [acc EXCEPT !.offset = @ - 1, !.total = @ + 1]

\* A stored value that Bincode::<queue::Message>::deserialize rejects.
CorruptValue == [bytes |-> "garbage"]

\* Bincode::<queue::Message>::deserialize(value) succeeds.
Deserializes(value) == "recipients" \in DOMAIN value

\* Message::next_delivery_event (smtp crate): the earliest retry.due of the
\* pending domains, the clock when there is none.
NextDeliveryEvent(message, clock) ==
    LET dues == {message.domains[i].retry.due :
                    i \in {j \in 1..Len(message.domains) :
                              IsPending(message.domains[j].status)}}
    IN IF dues = {} THEN clock ELSE Min(dues)

\* has_filters
HasFilters(req, clock) ==
    \/ IsSome(req.text) \/ IsSome(req.from) \/ IsSome(req.to)
    \/ IsSome(ParseTimestamp(req.before, clock))
    \/ IsSome(ParseTimestamp(req.after, clock))

\* message.recipients.iter().any(|r| r.address_lcase.contains(sub))
AnyRecipientContains(message, sub) ==
    \E i \in 1..Len(message.recipients) :
        Contains(message.recipients[i].address_lcase, sub)

\* let matches = ... of the messages list.
MessageMatches(message, req, clock) ==
    LET before == ParseTimestamp(req.before, clock)
        after == ParseTimestamp(req.after, clock)
    IN \/ ~HasFilters(req, clock)
       \/ /\ IF IsSome(req.text)
             THEN \/ Contains(message.return_path, req.text[1])
                  \/ AnyRecipientContains(message, req.text[1])
             ELSE /\ IsSome(req.from) =>
                        Contains(message.return_path, req.from[1])
                  /\ IsSome(req.to) => AnyRecipientContains(message, req.to[1])
          /\ IsSome(before) => NextDeliveryEvent(message, clock) < before[1]
          /\ IsSome(after) => NextDeliveryEvent(message, clock) > after[1]

\* What the list hands out for a match: Message::from(&message) with
\* `values`, else the id read from the key.
MessageItem(id, message, values) ==
    [id |-> id, value |-> IF values THEN Some(message) ELSE None]

\* The closure of the messages list on one record: Err when the value does
\* not deserialize.
VisitMessage(acc, id, value, req, clock) ==
    IF ~Deserializes(value) THEN [acc EXCEPT !.failed = TRUE]
    ELSE IF MessageMatches(value, req, clock)
         THEN PageStep(acc, req.limit, MessageItem(id, value, req.values))
         ELSE acc

\* Store::iterate over Message(0)..Message(u64::MAX), ascending (store
\* crate): the closure on every stored record from id on, until it
\* returns Err.
RECURSIVE IterateMessages(_, _, _, _, _)
IterateMessages(st, id, acc, req, clock) ==
    IF id \notin DOMAIN st \/ acc.failed THEN acc
    ELSE IF st[id] = None THEN IterateMessages(st, id + 1, acc, req, clock)
         ELSE IterateMessages(st, id + 1,
                              VisitMessage(acc, id, st[id][1], req, clock),
                              req, clock)

\* json!({"data": {"items": ..., "total": total}}); the error of iterate is
\* dropped by `let _ =`.
Listed(op, req, acc) ==
    [op |-> op, req |-> req, response |-> "ok",
     items |-> acc.result, total |-> acc.total]

\* The handler panicked on the overflow of the offset: no response.
Panicked(op, req) ==
    [op |-> op, req |-> req, response |-> "panic", items |-> <<>>, total |-> 0]

\* The outcomes of a list whose scan gives acc: its response and, when the
\* offset overflows, the panic of a build that checks arithmetic overflow.
ListOutcomes(op, req, acc) ==
    {Listed(op, req, acc)}
        \cup (IF MulOverflows(SaturatingSub(req.page, 1), req.limit)
              THEN {Panicked(op, req)} ELSE {})

\* GET /queue/messages
ListMessages(req) ==
    /\ last' \in ListOutcomes("list_messages", req,
                              IterateMessages(store, 0,
                                              ScanStart(ListOffset(req.page, req.limit)),
                                              req, now))
    /\ UNCHANGED <<now, store, events, inflight, codec, reports, sched>>

\* The stored report keys in ascending key order (store crate): by due
\* first, the class being the last byte of the key.
RECURSIVE SortedReports(_)
SortedReports(rs) ==
    IF rs = {} THEN <<>>
    ELSE LET first == CHOOSE k \in rs :
                         \A o \in rs : k.event.due <= o.event.due
         IN <<first>> \o SortedReports(rs \ {first})

\* *key.last().unwrap()
ClassByte(key) == IF key.class = "DmarcReportHeader" THEN 0 ELSE 1

\* params.get("type").and_then(...): 0 for "dmarc", 1 for "tls", no filter
\* for any other text.
ReportType(param) ==
    IF param = Some("dmarc") THEN Some(0)
    ELSE IF param = Some("tls") THEN Some(1)
    ELSE None

\* params.get("domain").map(|d| d.to_lowercase())
ReportDomain(param) == IF IsSome(param) THEN Some(ToLower(param[1])) ELSE None

\* type_.map_or(true, |t| t == *key.last().unwrap())
ReportTypeMatches(key, req) ==
    IsSome(ReportType(req.type)) => ReportType(req.type)[1] = ClassByte(key)

\* event.seq_id != 0 && domain.as_ref().map_or(true, |d| event.domain.contains(d))
ReportListed(key, req) ==
    /\ key.event.seq_id # 0
    /\ IsSome(ReportDomain(req.domain)) =>
           Contains(key.event.domain, ReportDomain(req.domain)[1])

\* The closure of the reports list on one key.
VisitReport(acc, key, req) ==
    IF ReportTypeMatches(key, req) /\ ReportListed(key, req)
    THEN PageStep(acc, req.limit, queue_id(key))
    ELSE acc

\* Store::iterate over the report keys, ascending, without values.
RECURSIVE IterateReports(_, _, _)
IterateReports(keys, acc, req) ==
    IF keys = <<>> THEN acc
    ELSE IterateReports(Tail(keys), VisitReport(acc, Head(keys), req), req)

\* GET /queue/reports
ListReports(req) ==
    /\ last' \in ListOutcomes("list_reports", req,
                              IterateReports(SortedReports(reports),
                                             ScanStart(ListOffset(req.page, req.limit)),
                                             req))
    /\ UNCHANGED <<now, store, events, inflight, codec, reports, sched>>

\* The stores the lists are asked about: three message ids that are free,
\* hold bytes that do not deserialize, or hold one of two messages, the
\* first due now and the second due later.
ListIds == 0..2

ListMessage(return_path, address, kind, due) ==
    [return_path |-> return_path,
     domains |-> <<MkDomain(<<"b">>, kind,
                            [due |-> due, expires |-> FarExpires,
                             notify |-> FarExpires])>>,
     recipients |-> <<MkRcpt(address, 1, kind)>>]

EarlyMessage == ListMessage(<<"a">>, <<"B">>, "Scheduled", 1)
LateMessage == ListMessage(<<"b">>, <<"a">>, "TemporaryFailure", MaxNow + 1)

ListValues ==
    [i \in ListIds |->
        CASE i = 0 -> {Some(EarlyMessage), Some(CorruptValue)}
          [] i = 1 -> {None, Some(EarlyMessage), Some(LateMessage),
                       Some(CorruptValue)}
          [] OTHER -> {None, Some(EarlyMessage), Some(LateMessage)}]

\* The event key of a stored value.
ListEvent(value) ==
    IF Deserializes(value) THEN UnwrapOrDefault(NextEvent(value)) ELSE 1

\* Three report keys with dues 1 to 3: records of seq_id 0 and records of
\* another seq_id, of both classes; the later two may be absent.
ListDues == 1..3

ReportKey(class, domain, seq_id, due) ==
    [class |-> class,
     event |-> [domain |-> domain, policy_hash |-> 7, seq_id |-> seq_id,
                due |-> due]]

ListReportKeys ==
    [d \in ListDues |->
        CASE d = 1 -> {{ReportKey("DmarcReportHeader", <<"a">>, 0, d)},
                       {ReportKey("DmarcReportHeader", <<"a">>, 5, d)}}
          [] d = 2 -> {{}, {ReportKey("TlsReportHeader", <<"a", "b">>, 5, d)},
                       {ReportKey("TlsReportHeader", <<"b">>, 0, d)}}
          [] OTHER -> {{}, {ReportKey("DmarcReportHeader", <<"a">>, 5, d)},
                       {ReportKey("TlsReportHeader", <<"b">>, 0, d)}}]

ListInit ==
    /\ now = 1
    /\ last = NoRequest
    /\ inflight = NoHandlers
    /\ codec = NoCodec
    /\ sched = NoScheduler
    /\ \/ /\ \E v0 \in ListValues[0], v1 \in ListValues[1], v2 \in ListValues[2] :
                store = [i \in ListIds |-> IF i = 0 THEN v0 ELSE IF i = 1 THEN v1 ELSE v2]
          /\ events = {<<ListEvent(store[id][1]), id>> :
                          id \in {i \in ListIds : store[i] # None}}
          /\ reports = NoReports
       \/ /\ store = [i \in ListIds |-> None]
          /\ events = {}
          /\ \E k1 \in ListReportKeys[1], k2 \in ListReportKeys[2],
                k3 \in ListReportKeys[3] :
                reports = k1 \cup k2 \cup k3

\* The parameters of the lists. page and limit are 0 when absent or no
\* number; BigPage - 1 times 2 is 2^64.
BigPage == (UsizeModulus \div 2) + 1

Pagings ==
    {[page |-> 0, limit |-> 0], [page |-> 0, limit |-> 1],
     [page |-> 1, limit |-> 0],
     [page |-> 2, limit |-> 0], [page |-> BigPage, limit |-> 0],
     [page |-> 1, limit |-> 1], [page |-> 2, limit |-> 1],
     [page |-> 3, limit |-> 1], [page |-> 1, limit |-> 2],
     [page |-> 2, limit |-> 2], [page |-> BigPage, limit |-> 2]}

NoFilters == [text |-> None, from |-> None, to |-> None,
              before |-> None, after |-> None, values |-> FALSE]

MessageFilters ==
    {NoFilters,
     [NoFilters EXCEPT !.values = TRUE],
     [NoFilters EXCEPT !.text = Some(<<"a">>)],
     [NoFilters EXCEPT !.from = Some(<<"b">>), !.to = Some(<<"a">>)],
     [NoFilters EXCEPT !.text = Some(<<"a">>), !.from = Some(<<"b">>)],
     [NoFilters EXCEPT !.before = Some(Some(MaxNow))],
     [NoFilters EXCEPT !.before = Some(Some(0))],
     [NoFilters EXCEPT !.after = Some(Some(MaxNow))]}

MessageRequests ==
    {[text |-> f.text, from |-> f.from, to |-> f.to, before |-> f.before,
      after |-> f.after, page |-> p.page, limit |-> p.limit,
      values |-> f.values] : f \in MessageFilters, p \in Pagings}

ReportRequests ==
    {[type |-> t, domain |-> d, page |-> p.page, limit |-> p.limit] :
        t \in {None, Some("dmarc"), Some("tls"), Some("all")},
        d \in {None, Some(<<"A">>)}, p \in Pagings}

ListNext ==
    \/ \E req \in MessageRequests : ListMessages(req)
    \/ \E req \in ReportRequests : ListReports(req)

ListSpec == ListInit /\ [][ListNext]_vars

\* The lists and the two changes of a message when the store can fail with
\* an I/O error: during the scan of a list, or in the write batch of a save.

\* The records Store::iterate hands to the closure before it fails at the
\* record `read` (store crate): those of the ids below it. Past the last id
\* the scan completes.
ScannedMessages(st, read) == [i \in {j \in DOMAIN st : j < read} |-> st[i]]

\* The same for the report keys.
ScannedReports(keys, read) == SubSeq(keys, 1, Min({read, Len(keys)}))

\* What the handler sees of the Err of iterate: `let _ =` drops it.
IterateOutcome(completed) == IF completed THEN <<>> ELSE <<"iterate_failed">>

\* json!({"data": {"items": ..., "total": total}}), whatever iterate
\* returned.
ListedOrFailed(op, req, acc, completed) ==
    [op |-> op, req |-> req, response |-> "ok",
     items |-> acc.result, total |-> acc.total,
     effects |-> IterateOutcome(completed)]

\* The outcomes of a list whose scan gives acc and completed or not: its
\* response and, when the offset overflows, the panic of a build that checks
\* arithmetic overflow.
ListOutcomesWith(op, req, acc, completed) ==
    {ListedOrFailed(op, req, acc, completed)}
        \cup (IF MulOverflows(SaturatingSub(req.page, 1), req.limit)
              THEN {[op |-> op, req |-> req, response |-> "panic",
                     items |-> <<>>, total |-> 0, effects |-> <<>>]}
              ELSE {})

\* GET /queue/messages when iterate fails at the record `read`.
ListMessagesWith(req, read) ==
    /\ last' \in ListOutcomesWith(
                    "list_messages", req,
                    IterateMessages(ScannedMessages(store, read), 0,
                                    ScanStart(ListOffset(req.page, req.limit)),
                                    req, now),
                    \A id \in DOMAIN store : id < read)
    /\ UNCHANGED <<now, store, events, inflight, codec, reports, sched>>

\* GET /queue/reports when iterate fails at the key `read` (from 0).
ListReportsWith(req, read) ==
    /\ last' \in ListOutcomesWith(
                    "list_reports", req,
                    IterateReports(ScannedReports(SortedReports(reports), read),
                                   ScanStart(ListOffset(req.page, req.limit)),
                                   req),
                    read >= Cardinality(reports))
    /\ UNCHANGED <<now, store, events, inflight, codec, reports, sched>>

\* The stores: messages that deserialize, or report keys.
IoValues ==
    [i \in ListIds |->
        CASE i = 0 -> {Some(EarlyMessage)}
          [] OTHER -> {None, Some(EarlyMessage), Some(LateMessage)}]

IoInit ==
    /\ now = 1
    /\ last = NoRequest
    /\ inflight = NoHandlers
    /\ codec = NoCodec
    /\ sched = NoScheduler
    /\ \/ /\ \E v1 \in IoValues[1], v2 \in IoValues[2] :
                store = [i \in ListIds |->
                            IF i = 0 THEN Some(EarlyMessage)
                            ELSE IF i = 1 THEN v1 ELSE v2]
          /\ events = {<<ListEvent(store[id][1]), id>> :
                          id \in {i \in ListIds : store[i] # None}}
          /\ reports = NoReports
       \/ /\ store = [i \in ListIds |-> None]
          /\ events = {}
          /\ \E k1 \in ListReportKeys[1], k2 \in ListReportKeys[2],
                k3 \in ListReportKeys[3] :
                reports = k1 \cup k2 \cup k3

\* The requests: unpaged and paged lists, and changes of the message 0.
IoPagings == {[page |-> 0, limit |-> 0], [page |-> 2, limit |-> 1]}
IoReads == 0..3
IoItems == {None, Some(<<"b">>)}

IoMessageRequests ==
    {[text |-> f.text, from |-> f.from, to |-> f.to, before |-> f.before,
      after |-> f.after, page |-> p.page, limit |-> p.limit,
      values |-> f.values] :
        f \in {NoFilters, [NoFilters EXCEPT !.text = Some(<<"a">>)]},
        p \in IoPagings}

IoReportRequests ==
    {[type |-> t, domain |-> None, page |-> p.page, limit |-> p.limit] :
        t \in {None, Some("tls")}, p \in IoPagings}

IoNext ==
    \/ \E req \in IoMessageRequests, read \in IoReads : ListMessagesWith(req, read)
    \/ \E req \in IoReportRequests, read \in IoReads : ListReportsWith(req, read)
    \/ /\ \E atp \in AtParams, itemp \in IoItems, saved \in BOOLEAN :
             RescheduleWith(Some(0), atp, itemp, saved, TRUE)
       /\ UNCHANGED <<inflight, codec, reports, sched>>
    \/ /\ \E itemp \in IoItems, saved \in BOOLEAN : CancelWith(Some(0), itemp, saved)
       /\ UNCHANGED <<inflight, codec, reports, sched>>

IoSpec == IoInit /\ [][IoNext]_vars

----------------------------------------------------------------------------
\* ("reports", Some(report_id), GET) and ("reports", Some(report_id), DELETE).

\* The records of the report a header names (smtp crate): those of its
\* class, domain, policy_hash and due; its entries are those whose seq_id
\* is not 0.
Associated(key, h) ==
    /\ key.class = h.class
    /\ key.event.domain = h.event.domain
    /\ key.event.policy_hash = h.event.policy_hash
    /\ key.event.due = h.event.due

ReportEntries(rs, h) == {k \in rs : Associated(k, h) /\ k.event.seq_id # 0}

\* generate_dmarc_aggregate_report / generate_tls_aggregate_report (smtp
\* crate): Err when the store fails, else the report assembled from the
\* entries, None when there is no entry.
GenerateReport(rs, h, works) ==
    IF ~works THEN "error"
    ELSE IF ReportEntries(rs, h) = {} THEN "none" ELSE "report"

\* delete_dmarc_report(event) / delete_tls_report(events) (smtp crate): the
\* header and the entries of every event are removed.
DeleteReports(rs, hs) ==
    {k \in rs : \A i \in 1..Len(hs) : ~Associated(k, hs[i])}

\* The collaborator a GET calls for a decoded id, with its arguments.
GenerateCall(h) ==
    IF h.class = "DmarcReportHeader"
    THEN [fn |-> "generate_dmarc_aggregate_report", events |-> <<h.event>>]
    ELSE [fn |-> "generate_tls_aggregate_report", events |-> <<h.event>>]

\* self.smtp.delete_dmarc_report(event) / delete_tls_report(vec![event])
DeleteCall(h) ==
    IF h.class = "DmarcReportHeader"
    THEN [fn |-> "delete_dmarc_report", events |-> <<h.event>>]
    ELSE [fn |-> "delete_tls_report", events |-> <<h.event>>]

\* A result that is set whenever the collaborator did not fail.
ReportResult_AnyOk(outcome) == outcome \in {"report", "none"}

\* if let Ok(Some(report)) = ... { result = ... .into() }
ReportResult(outcome) == outcome = "report"

\* The request just served on a report id: the calls it made, what the
\* collaborator returned, and whether the store held a record of the
\* report before.
ReportServed(op, id, response, calls, outcome, existed) ==
    [op |-> op, id |-> id, response |-> response, calls |-> calls,
     outcome |-> outcome, existed |-> existed]

\* GET /queue/reports/{id}. works: the collaborator's store reads succeed.
GetReport(id, works) ==
    LET parsed == parse_queued_report_id(id)
    IN /\ last' =
             IF IsSome(parsed)
             THEN LET outcome == GenerateReport(reports, parsed[1], works)
                  IN ReportServed("get_report", id,
                                  IF ReportResult(outcome) THEN "ok"
                                                           ELSE "not_found",
                                  <<GenerateCall(parsed[1])>>, outcome,
                                  \E k \in reports : Associated(k, parsed[1]))
             ELSE ReportServed("get_report", id, "not_found", <<>>, "none", FALSE)
       /\ UNCHANGED <<now, store, events, inflight, codec, reports, sched>>

\* DELETE /queue/reports/{id}
DeleteReport(id) ==
    LET parsed == parse_queued_report_id(id)
    IN IF IsSome(parsed)
       THEN LET call == DeleteCall(parsed[1])
            IN /\ reports' = DeleteReports(reports,
                                 [i \in 1..Len(call.events) |->
                                     [class |-> parsed[1].class,
                                      event |-> call.events[i]]])
               /\ last' = ReportServed("delete_report", id, "ok", <<call>>,
                                       "none",
                                       \E k \in reports : Associated(k, parsed[1]))
               /\ UNCHANGED <<now, store, events, inflight, codec, sched>>
       ELSE /\ last' = ReportServed("delete_report", id, "not_found", <<>>,
                                    "none", FALSE)
            /\ UNCHANGED <<now, store, events, inflight, codec, reports, sched>>

\* The reports in the store: a DMARC and a TLS report, each with its header
\* (seq_id 0) and one entry, or a part of them.
StoredReportKeys ==
    {ReportKey("DmarcReportHeader", <<"a">>, 0, 1),
     ReportKey("DmarcReportHeader", <<"a">>, 5, 1),
     ReportKey("TlsReportHeader", <<"b">>, 0, 2),
     ReportKey("TlsReportHeader", <<"b">>, 5, 2)}

\* The headers requests name: the two that can be stored and one that
\* never is.
RequestHeaders ==
    {ReportKey("DmarcReportHeader", <<"a">>, 0, 1),
     ReportKey("TlsReportHeader", <<"b">>, 0, 2),
     ReportKey("TlsReportHeader", <<"a">>, 0, 3)}

WellFormedIds == {queue_id(h) : h \in RequestHeaders}

\* Ids with another class letter, without due, and with a seq_id that is
\* no number.
MalformedIds ==
    {<<"x", "!", "a", "!", "7", "!", "0", "!", "1">>,
     <<"d", "!", "a", "!", "7", "!", "0">>,
     <<"t", "!", "b", "!", "7", "!", "x", "!", "2">>}

ReportIds == WellFormedIds \cup MalformedIds

ReportInit ==
    /\ now = 1
    /\ store = [i \in QueueIds |-> None]
    /\ events = {}
    /\ last = NoRequest
    /\ inflight = NoHandlers
    /\ codec = NoCodec
    /\ sched = NoScheduler
    /\ reports \in SUBSET StoredReportKeys

ReportNext ==
    \/ \E id \in ReportIds, works \in BOOLEAN : GetReport(id, works)
    \/ \E id \in ReportIds : DeleteReport(id)

ReportSpec == ReportInit /\ [][ReportNext]_vars

----------------------------------------------------------------------------
\* The queue manager (smtp crate): one loop that waits for its timer or for
\* a Reload on queue_tx, then looks at every message whose event key is due.
\* sched.wake is the time the timer is set to, sched.reload tells that a
\* Reload waits in the channel.

\* The soonest event key in the store.
SoonestEvent(ev) == IF ev = {} THEN None ELSE Some(Min({k[1] : k \in ev}))

\* The outcomes of a delivery attempt on a domain.
Attempts == {"Completed", "TemporaryFailure", "PermanentFailure"}

\* The delay before the next attempt after a temporary failure.
RetryDelay == 1

\* The queue manager on one domain: a pending domain whose expires has
\* passed fails permanently; else, when its retry is due, delivery is
\* attempted and gives outcome.
PassDomain(d, clock, outcome) ==
    IF ~IsPending(d.status) THEN d
    ELSE IF d.expires <= clock THEN [d EXCEPT !.status = "PermanentFailure"]
    ELSE IF d.retry.due <= clock
         THEN IF outcome = "TemporaryFailure"
              THEN [d EXCEPT !.status = outcome, !.retry.due = clock + RetryDelay]
              ELSE [d EXCEPT !.status = outcome]
         ELSE d

\* The recipients of a domain that left the pending statuses get its status.
PassRcpt(rcpt, before, after) ==
    IF /\ ~IsDone(rcpt.status)
       /\ IsPending(before[rcpt.domain_idx].status)
       /\ ~IsPending(after[rcpt.domain_idx].status)
    THEN [rcpt EXCEPT !.status = HostStatus(after[rcpt.domain_idx].status)]
    ELSE rcpt

PassMessage(message, clock, outcome) ==
    LET domains == [i \in 1..Len(message.domains) |->
                       PassDomain(message.domains[i], clock, outcome)]
    IN [message EXCEPT
           !.domains = domains,
           !.recipients = [i \in 1..Len(message.recipients) |->
                              PassRcpt(message.recipients[i], message.domains,
                                       domains)]]

\* The keys that are due at clock.
DueKeys(ev, clock) == {k \in ev : k[1] <= clock}

\* The timer fires or a Reload arrives: the loop starts a pass.
SchedulerWake ==
    /\ sched.phase = "waiting"
    /\ sched.reload \/ (IsSome(sched.wake) /\ sched.wake[1] <= now)
    /\ sched' = [sched EXCEPT !.phase = "running", !.reload = FALSE]
    /\ UNCHANGED <<now, store, events, last, inflight, codec, reports>>

\* The pass: every message with a due key is handled and written back under
\* its next event, or removed when no domain is pending; then the timer is
\* set to the soonest key in the store.
SchedulerPass(outcome) ==
    /\ sched.phase = "running"
    /\ LET due == {k[2] : k \in DueKeys(events, now)}
           handled == {id \in due : ReadMessage(store, id) # None}
           after == [id \in handled |-> PassMessage(store[id][1], now, outcome)]
           kept == {id \in handled : HasPendingDomain(after[id])}
       IN /\ store' = [id \in DOMAIN store |->
                          IF id \in kept THEN Some(after[id])
                          ELSE IF id \in handled THEN None
                          ELSE store[id]]
          /\ events' = (events \ DueKeys(events, now))
                          \cup {<<UnwrapOrDefault(NextEvent(after[id])), id>> :
                                   id \in kept}
          /\ sched' = [sched EXCEPT !.phase = "waiting",
                                    !.wake = SoonestEvent(events')]
    /\ UNCHANGED <<now, last, inflight, codec, reports>>

\* queue_tx delivers what the handler just sent.
Signalled(s, effects) ==
    IF \E i \in 1..Len(effects) : <<effects[i]>> = <<"send_reload">>
    THEN [s EXCEPT !.reload = TRUE]
    ELSE s

\* The clock values the queue manager is watched at: now, a little later,
\* and the time at which an expires set now has passed.
SchedTimes == {1, MaxNow, 1 + ExpiresWindow}

\* now() advances.
SchedTick ==
    /\ \E t \in SchedTimes : t > now /\ now' = t
    /\ UNCHANGED <<store, events, last, inflight, codec, reports, sched>>

\* A retry that is due after every time in SchedTimes.
LateDue == MaxNow + ExpiresWindow + 3

\* The message the queue manager starts with: its first domain pending,
\* expired already or due late, with one recipient done; its second domain
\* in any status but TemporaryFailure and, when pending, due now.
SchedProfiles ==
    {[due |-> 1, expires |-> 1, notify |-> FarExpires + LateDue],
     [due |-> LateDue, expires |-> FarExpires + LateDue,
      notify |-> FarExpires + LateDue]}

SchedInit ==
    /\ now = 1
    /\ \E k1 \in Pending, tp \in SchedProfiles,
          k2 \in {"Scheduled", "Completed", "PermanentFailure"} :
          LET m == MkMessage(2, <<k1, k2>>,
                             <<tp, IF IsPending(k2)
                                   THEN [due |-> 1, expires |-> FarExpires,
                                         notify |-> FarExpires + LateDue]
                                   ELSE DoneProfile>>,
                             <<k1, "Completed",
                               IF k2 = "Scheduled" THEN k2 ELSE "PermanentFailure">>)
          IN /\ store = [i \in QueueIds |-> IF i = 0 THEN Some(m) ELSE None]
             /\ events = {<<UnwrapOrDefault(NextEvent(m)), 0>>}
             /\ sched = [phase |-> "waiting", reload |-> FALSE,
                         wake |-> NextEvent(m)]
    /\ last = NoRequest
    /\ inflight = NoHandlers
    /\ codec = NoCodec
    /\ reports = NoReports

SchedAts == {Some(Some(1)), Some(Some(MaxNow))}
SchedItems == {None, Some(<<"a">>)}

SchedNext ==
    \/ /\ \E atp \in SchedAts : Reschedule(Some(0), atp, None)
       /\ sched' = Signalled(sched, last'.effects)
       /\ UNCHANGED <<inflight, codec, reports>>
    \/ /\ \E itemp \in SchedItems : Cancel(Some(0), itemp)
       /\ sched' = Signalled(sched, last'.effects)
       /\ UNCHANGED <<inflight, codec, reports>>
    \/ SchedTick
    \/ SchedulerWake
    \/ \E outcome \in Attempts : SchedulerPass(outcome)

SchedSpec == SchedInit /\ [][SchedNext]_vars

\* The loop runs whenever it can: a waiting loop whose timer is due or
\* that has a Reload wakes, and a started pass ends.
SchedLive ==
    /\ SchedSpec
    /\ WF_vars(SchedulerWake)
    /\ WF_vars(\E outcome \in Attempts : SchedulerPass(outcome))

----------------------------------------------------------------------------
\* Vocabulary of the properties: the message a request addressed before and
\* after it was served, and the words of the specification.

Stored(st, id) == st[id][1]

NonTerminal(kind) == kind = "Scheduled" \/ kind = "TemporaryFailure"

Resolved(kind) == kind = "Completed" \/ kind = "PermanentFailure"

\* The domain is one a reschedule with this filter is to select.
Matched(domain, item) ==
    NonTerminal(domain.status) /\ (item = None \/ Contains(domain.domain, item[1]))

\* The step serves a request: Tick is the only other step, and the only one
\* that moves the clock.
RequestStep == now' = now

\* A PATCH with parameters (idp, atp, itemp) was just served on a stored
\* message.
Rescheduled(idp, atp, itemp) ==
    /\ RequestStep
    /\ last'.op = "reschedule"
    /\ last'.response = "ok"
    /\ Reschedule(idp, atp, itemp)

\* The `at` parameter is a timestamp that is not in the past.
ValidAt(atp) == IsSome(atp) /\ IsSome(atp[1]) /\ atp[1][1] >= now

\* The step serves a PATCH on a stored message.
RescheduleStep == RequestStep /\ last'.op = "reschedule" /\ last'.response = "ok"

----------------------------------------------------------------------------
\* C1: a reschedule to a valid time `at` uses that time, sets retry.due to it
\* on exactly the domains that are Scheduled or TemporaryFailure and whose
\* name contains the filter (all such domains without a filter), leaves
\* retry.due of the other domains alone, and answers true iff it selected a
\* domain.
C1_RescheduleSelected ==
    [][/\ \A atp \in AtParams :
             ValidAt(atp) => RescheduleTime(atp, now) = atp[1][1]
       /\ RescheduleStep =>
            LET pre == Stored(store, last'.id)
                post == Stored(store', last'.id)
            IN /\ Len(post.domains) = Len(pre.domains)
               /\ \A i \in 1..Len(pre.domains) :
                     IF Matched(pre.domains[i], last'.item)
                     THEN post.domains[i].retry.due = last'.time
                     ELSE post.domains[i].retry.due = pre.domains[i].retry.due
               /\ last'.found <=>
                     \E i \in 1..Len(pre.domains) :
                         Matched(pre.domains[i], last'.item)]_vars

\* A filtered reschedule moved one pending domain to a later time and left
\* another pending domain, which the filter does not name, where it was.
C1_Witness ==
    /\ last.op = "reschedule" /\ last.found /\ IsSome(last.item)
    /\ IsSome(store[last.id])
    /\ LET m == Stored(store, last.id)
       IN \E i, j \in 1..Len(m.domains) :
             /\ Matched(m.domains[i], last.item)
             /\ m.domains[i].retry.due = last.time
             /\ NonTerminal(m.domains[j].status)
             /\ ~Matched(m.domains[j], last.item)
             /\ m.domains[j].retry.due # last.time

\* C2: every domain of every stored message has expires >= retry.due.
C2_ExpiresNotBeforeDue ==
    \A id \in QueueIds :
        IsSome(store[id]) =>
            \A i \in 1..Len(Stored(store, id).domains) :
                Stored(store, id).domains[i].expires
                    >= Stored(store, id).domains[i].retry.due

\* C3: a reschedule to a time later than a selected domain's expires sets
\* that domain's expires to the time plus 10.
C3_LateRescheduleExtends ==
    [][(RescheduleStep /\ last'.found) =>
          LET pre == Stored(store, last'.id)
              post == Stored(store', last'.id)
          IN \A i \in 1..Len(pre.domains) :
                (Matched(pre.domains[i], last'.item)
                    /\ last'.time > pre.domains[i].expires)
                 => post.domains[i].expires = last'.time + 10]_vars

\* C4: a reschedule to a time for which a selected domain's expires is
\* already greater than the time plus 10 leaves that expires unchanged.
C4_EarlyRescheduleKeepsExpires ==
    [][(RescheduleStep /\ last'.found) =>
          LET pre == Stored(store, last'.id)
              post == Stored(store', last'.id)
          IN \A i \in 1..Len(pre.domains) :
                (Matched(pre.domains[i], last'.item)
                    /\ pre.domains[i].expires > last'.time + 10)
                 => post.domains[i].expires = pre.domains[i].expires]_vars

\* C5: a reschedule whose `at` is earlier than the current time is rejected:
\* it changes no domain, writes nothing and sends no reload.
C5_PastRescheduleRejected ==
    [][\A idp \in IdParams, atp \in AtParams, itemp \in RescheduleItems :
         (Rescheduled(idp, atp, itemp) /\ IsSome(atp) /\ IsSome(atp[1])
             /\ atp[1][1] < now)
          => /\ store' = store
             /\ events' = events
             /\ last'.effects = <<>>]_vars

----------------------------------------------------------------------------
\* The step serves a PATCH that repeats the PATCH served just before it: the
\* same id, the same filter, and the same time to reschedule to.
RepeatedReschedule == RescheduleStep /\ last'.again

\* C6: rescheduling is idempotent: a reschedule that repeats the one before it
\* (same id, same time, same filter) leaves retry.due and expires of every
\* domain as the first left them, and answers true like the first.
C6_RescheduleIdempotent ==
    [][RepeatedReschedule =>
          LET pre == Stored(store, last'.id)
              post == Stored(store', last'.id)
          IN /\ last.found /\ last'.found
             /\ \A i \in 1..Len(pre.domains) :
                   /\ post.domains[i].retry.due = pre.domains[i].retry.due
                   /\ post.domains[i].expires = pre.domains[i].expires]_vars

\* A reschedule was repeated on a domain whose deadline the first call had
\* restarted: it is due at the requested time and expires 10 later.
C6_Witness ==
    /\ last.op = "reschedule" /\ last.again /\ last.found
    /\ \E i \in 1..Len(Stored(store, last.id).domains) :
          LET d == Stored(store, last.id).domains[i]
          IN /\ Matched(d, last.item)
             /\ d.retry.due = last.time
             /\ d.expires = last.time + 10

\* C7: a reschedule that selects a domain moves the message's position from
\* the next-event value computed before the change to the one computed after
\* it, writes the record, and sends the reload after these writes; one that
\* selects nothing writes nothing and sends nothing.
C7_RescheduleRekeys ==
    [][RescheduleStep =>
          LET id == last'.id
              pre == Stored(store, id)
              post == Stored(store', id)
              before == UnwrapOrDefault(NextEvent(pre))
              after == UnwrapOrDefault(NextEvent(post))
          IN IF \E i \in 1..Len(pre.domains) : Matched(pre.domains[i], last'.item)
             THEN /\ events' = (events \ {<<before, id>>}) \cup {<<after, id>>}
                  /\ <<after, id>> \in events'
                  /\ (before # after => <<before, id>> \notin events')
                  /\ last'.effects =
                        <<"clear_event", "set_event", "set_message", "send_reload">>
             ELSE /\ store' = store
                  /\ events' = events
                  /\ last'.effects = <<>>]_vars

\* A reschedule moved the message to a later position: its new next-event
\* is in the ordering and is the time of the request.
C7_Witness ==
    /\ last.op = "reschedule" /\ last.found
    /\ last.effects = <<"clear_event", "set_event", "set_message", "send_reload">>
    /\ NextEvent(Stored(store, last.id)) = Some(last.time)
    /\ last.time > 1
    /\ events = {<<last.time, last.id>>}

----------------------------------------------------------------------------
\* The step serves a DELETE with a filter on a stored message, which stays
\* stored.
FilteredCancelKept ==
    /\ RequestStep
    /\ last'.op = "cancel" /\ last'.response = "ok"
    /\ IsSome(last'.item)
    /\ IsSome(store'[last'.id])

\* Every recipient of the domain at domain_idx is Completed or
\* PermanentFailure.
AllResolved(message, domain_idx) ==
    \A r \in 1..Len(message.recipients) :
        message.recipients[r].domain_idx = domain_idx
            => Resolved(message.recipients[r].status.kind)

\* C8 as stated: a cancel with a filter makes every recipient whose address
\* contains the filter a PermanentFailure and changes the status of no
\* other recipient.
C8_CancelByAddress ==
    [][FilteredCancelKept =>
          LET pre == Stored(store, last'.id)
              post == Stored(store', last'.id)
          IN \A r \in 1..Len(pre.recipients) :
                IF Contains(pre.recipients[r].address, last'.item[1])
                THEN post.recipients[r].status.kind = "PermanentFailure"
                ELSE post.recipients[r].status = pre.recipients[r].status]_vars

\* C8 amended: a cancel with a filter gives every recipient whose lower-cased
\* address (address_lcase) contains the filter as written the status
\* PermanentFailure with code 0 and message "Delivery canceled.", and changes
\* the status of no other recipient.
C8_CancelByLowerCaseAddress ==
    [][FilteredCancelKept =>
          LET pre == Stored(store, last'.id)
              post == Stored(store', last'.id)
          IN /\ Len(post.recipients) = Len(pre.recipients)
             /\ \A r \in 1..Len(pre.recipients) :
                   IF Contains(pre.recipients[r].address_lcase, last'.item[1])
                   THEN post.recipients[r].status =
                          [kind |-> "PermanentFailure", code |-> 0,
                           message |-> "Delivery canceled."]
                   ELSE post.recipients[r].status = pre.recipients[r].status]_vars

\* A cancel with a lower-case filter canceled a recipient whose address is
\* written in upper case, and left another recipient pending.
C8_Witness ==
    /\ last.op = "cancel" /\ last.found /\ IsSome(last.item)
    /\ IsSome(store[last.id])
    /\ LET m == Stored(store, last.id)
       IN \E r, q \in 1..Len(m.recipients) :
             /\ m.recipients[r].status.message = "Delivery canceled."
             /\ ~Contains(m.recipients[r].address, last.item[1])
             /\ Contains(m.recipients[r].address_lcase, last.item[1])
             /\ NonTerminal(m.recipients[q].status.kind)

\* C9: after a cancel with a filter, a domain that was Scheduled or
\* TemporaryFailure is Completed iff every recipient referring to it is
\* Completed or PermanentFailure, and keeps its status otherwise.
C9_CancelCompletesDomains ==
    [][FilteredCancelKept =>
          LET pre == Stored(store, last'.id)
              post == Stored(store', last'.id)
          IN \A i \in 1..Len(pre.domains) :
                NonTerminal(pre.domains[i].status) =>
                   /\ post.domains[i].status = "Completed" <=> AllResolved(post, i)
                   /\ ~AllResolved(post, i) =>
                         post.domains[i].status = pre.domains[i].status]_vars

\* Scenario C, with a second domain: the cancel resolved one of the two
\* recipients of a domain, which stays pending, and the only recipient of
\* another domain, which became Completed.
C9_Witness ==
    /\ last.op = "cancel" /\ last.found /\ IsSome(last.item)
    /\ IsSome(store[last.id])
    /\ LET m == Stored(store, last.id)
       IN \E i, j \in 1..Len(m.domains) :
             /\ NonTerminal(m.domains[i].status)
             /\ \E r, q \in 1..Len(m.recipients) :
                   /\ m.recipients[r].domain_idx = i
                   /\ m.recipients[q].domain_idx = i
                   /\ m.recipients[r].status.message = "Delivery canceled."
                   /\ NonTerminal(m.recipients[q].status.kind)
             /\ m.domains[j].status = "Completed"
             /\ \E r \in 1..Len(m.recipients) :
                   /\ m.recipients[r].domain_idx = j
                   /\ m.recipients[r].status.message = "Delivery canceled."

\* The step serves a DELETE with a filter on a stored message.
FilteredCancel ==
    /\ RequestStep
    /\ last'.op = "cancel" /\ last'.response = "ok"
    /\ IsSome(last'.item)

\* The recipient is resolved once the filter is applied: it was already, or
\* the cancel matches it.
ResolvedAfter(rcpt, item) ==
    Resolved(rcpt.status.kind) \/ Contains(rcpt.address_lcase, item)

\* C10: a cancel with a filter deletes the message iff it matched a recipient
\* and, once the domains are recomputed, none is Scheduled or
\* TemporaryFailure; otherwise the message is still read by its id, and has
\* such a domain.
C10_CancelDeletesWhenResolved ==
    [][FilteredCancel =>
          LET id == last'.id
              pre == Stored(store, id)
              item == last'.item[1]
              nonePending ==
                  \A i \in 1..Len(pre.domains) :
                      NonTerminal(pre.domains[i].status) =>
                          \A r \in 1..Len(pre.recipients) :
                              pre.recipients[r].domain_idx = i
                                  => ResolvedAfter(pre.recipients[r], item)
          IN /\ ReadMessage(store', id) = None <=> nonePending
             /\ ~nonePending =>
                   \E i \in 1..Len(Stored(store', id).domains) :
                       NonTerminal(Stored(store', id).domains[i].status)]_vars

\* A cancel with a filter resolved the last pending recipients of a message,
\* and the message is gone: its event and its record were cleared.
C10_Witness ==
    /\ last.op = "cancel" /\ last.found /\ IsSome(last.item)
    /\ store[last.id] = None
    /\ last.effects = <<"clear_event", "clear_message">>

----------------------------------------------------------------------------
\* C11: a cancel with a filter that keeps the message moves its position from
\* the next-event value computed before the cancellation to the one computed
\* after it, as a reschedule does.
C11_CancelRekeys ==
    [][(FilteredCancelKept /\ last'.found) =>
          LET id == last'.id
              before == UnwrapOrDefault(NextEvent(Stored(store, id)))
              after == UnwrapOrDefault(NextEvent(Stored(store', id)))
          IN events' = (events \ {<<before, id>>}) \cup {<<after, id>>}]_vars

\* C13 as stated: in every stored message a domain is Completed iff every
\* recipient referring to it is Completed or PermanentFailure.
C13_CompletedIffResolved ==
    \A id \in QueueIds :
        IsSome(store[id]) =>
            \A i \in 1..Len(Stored(store, id).domains) :
                Stored(store, id).domains[i].status = "Completed"
                    <=> AllResolved(Stored(store, id), i)

\* C13 amended: in every stored message a domain that is not PermanentFailure
\* is Completed iff every recipient referring to it is Completed or
\* PermanentFailure.
C13_CompletedIffResolvedUnlessFailed ==
    \A id \in QueueIds :
        IsSome(store[id]) =>
            \A i \in 1..Len(Stored(store, id).domains) :
                Stored(store, id).domains[i].status # "PermanentFailure" =>
                    (Stored(store, id).domains[i].status = "Completed"
                        <=> AllResolved(Stored(store, id), i))

\* A cancel resolved the last recipient of a PermanentFailure domain, which
\* stays PermanentFailure, and kept the message for a pending domain.
C13_Witness ==
    /\ last.op = "cancel" /\ last.found /\ IsSome(last.item)
    /\ IsSome(store[last.id])
    /\ LET m == Stored(store, last.id)
       IN \E i, j \in 1..Len(m.domains) :
             /\ m.domains[i].status = "PermanentFailure"
             /\ AllResolved(m, i)
             /\ \E r \in 1..Len(m.recipients) :
                   /\ m.recipients[r].domain_idx = i
                   /\ m.recipients[r].status.message = "Delivery canceled."
             /\ NonTerminal(m.domains[j].status)
             /\ ~AllResolved(m, j)

\* The message has a Scheduled or TemporaryFailure domain.
HasNonTerminal(message) ==
    \E i \in 1..Len(message.domains) : NonTerminal(message.domains[i].status)

\* The message has a Scheduled or TemporaryFailure domain once a cancel with
\* this filter (None: no filter) has been applied to it: a domain with a
\* recipient the cancel leaves unresolved.
LeftPending(message, itemp) ==
    \E i \in 1..Len(message.domains) :
        /\ NonTerminal(message.domains[i].status)
        /\ \E r \in 1..Len(message.recipients) :
              /\ message.recipients[r].domain_idx = i
              /\ ~Resolved(message.recipients[r].status.kind)
              /\ (IsSome(itemp) =>
                    ~Contains(message.recipients[r].address_lcase, itemp[1]))

\* The record of id is in the store before the step and not after it.
Removed(id) == IsSome(store[id]) /\ store'[id] = None

\* C14 as stated: a message record exists in the store iff one of its domains
\* is Scheduled or TemporaryFailure: every stored message has such a domain,
\* and a record leaves the store only when the message has none.
C14_StoredIffPending ==
    [][/\ \A id \in QueueIds :
             IsSome(store'[id]) => HasNonTerminal(Stored(store', id))
       /\ \A id \in QueueIds :
             Removed(id) => ~LeftPending(Stored(store, id), last'.item)]_vars

\* C14 amended: every stored message has a Scheduled or TemporaryFailure
\* domain, and a record leaves the store only by a cancel without a filter,
\* whatever its domains are, or by a cancel with a filter that leaves it no
\* such domain.
C14_StoredHasPending ==
    [][/\ \A id \in QueueIds :
             IsSome(store'[id]) => HasNonTerminal(Stored(store', id))
       /\ \A id \in QueueIds :
             Removed(id) =>
                /\ last'.op = "cancel" /\ last'.id = id /\ last'.found
                /\ (IsSome(last'.item) =>
                       ~LeftPending(Stored(store, id), last'.item))]_vars

\* A cancel with a filter completed a domain and kept the message for its one
\* remaining pending domain, a TemporaryFailure.
C14_Witness ==
    /\ last.op = "cancel" /\ last.found /\ IsSome(last.item)
    /\ IsSome(store[last.id])
    /\ LET m == Stored(store, last.id)
       IN \E i, j \in 1..Len(m.domains) :
             /\ m.domains[i].status = "TemporaryFailure"
             /\ m.domains[j].status = "Completed"
             /\ \E r \in 1..Len(m.recipients) :
                   /\ m.recipients[r].domain_idx = j
                   /\ m.recipients[r].status.message = "Delivery canceled."

\* The step serves a DELETE without a filter on a stored message.
UnfilteredCancel ==
    /\ RequestStep
    /\ last'.op = "cancel" /\ last'.response = "ok"
    /\ last'.item = None

\* C12: a cancel without a filter deletes the message it finds, whatever the
\* statuses of its domains and recipients, and answers true.
C12_UnfilteredCancelDeletes ==
    [][UnfilteredCancel =>
          /\ IsSome(store[last'.id])
          /\ ReadMessage(store', last'.id) = None
          /\ last'.found]_vars

\* A cancel without a filter removed the message: its record is gone and the
\* request answered true.
C12_Witness ==
    /\ last.op = "cancel" /\ last.response = "ok" /\ last.item = None
    /\ last.found
    /\ store[last.id] = None

\* C15: a cancel with a filter that keeps the message leaves retry.due, the
\* retry count, notify.due and expires of every domain as they were.
C15_CancelKeepsRetryState ==
    [][FilteredCancelKept =>
          LET pre == Stored(store, last'.id)
              post == Stored(store', last'.id)
          IN /\ Len(post.domains) = Len(pre.domains)
             /\ \A i \in 1..Len(pre.domains) :
                   /\ post.domains[i].retry = pre.domains[i].retry
                   /\ post.domains[i].notify = pre.domains[i].notify
                   /\ post.domains[i].expires = pre.domains[i].expires]_vars

\* A cancel completed a domain that had been retried and kept another
\* pending: the completed domain still carries its retry count.
C15_Witness ==
    /\ last.op = "cancel" /\ last.found /\ IsSome(last.item)
    /\ IsSome(store[last.id])
    /\ LET m == Stored(store, last.id)
       IN \E i, j \in 1..Len(m.domains) :
             /\ m.domains[i].status = "Completed"
             /\ m.domains[i].retry.inner = 1
             /\ \E r \in 1..Len(m.recipients) :
                   /\ m.recipients[r].domain_idx = i
                   /\ m.recipients[r].status.message = "Delivery canceled."
             /\ NonTerminal(m.domains[j].status)

\* C16: a cancel with a filter that matches no recipient of the message (no
\* lower-cased address contains it) answers false and leaves the record, the
\* statuses and the position of the message as they were, writing nothing.
C16_NoMatchCancelChangesNothing ==
    [][(FilteredCancel
          /\ \A r \in 1..Len(Stored(store, last'.id).recipients) :
                ~Contains(Stored(store, last'.id).recipients[r].address_lcase,
                          last'.item[1]))
        => /\ ~last'.found
           /\ store' = store
           /\ events' = events
           /\ last'.effects = <<>>]_vars

\* A cancel whose filter is the upper-case spelling of a recipient's address
\* matched nothing and answered false.
C16_Witness ==
    /\ last.op = "cancel" /\ last.response = "ok" /\ ~last.found
    /\ IsSome(last.item)
    /\ IsSome(store[last.id])
    /\ \E r \in 1..Len(Stored(store, last.id).recipients) :
          Contains(Stored(store, last.id).recipients[r].address, last.item[1])

\* The step serves a GET, PATCH or DELETE that names a message id the store
\* does not hold.
MissingMessageStep ==
    /\ RequestStep
    /\ last' # last
    /\ last'.op \in {"get", "reschedule", "cancel"}
    /\ store[last'.id] = None

\* C17: a get, reschedule or cancel of a message id that is not in the store
\* answers not-found, leaves the store unchanged and sends no reload.
C17_MissingMessageNotFound ==
    [][MissingMessageStep =>
          /\ last'.response = "not_found"
          /\ store' = store
          /\ events' = events
          /\ last'.effects = <<>>]_vars

\* A reschedule of the id of a message that a cancel had removed was
\* answered not-found.
C17_Witness ==
    /\ last.op = "reschedule" /\ last.response = "not_found"
    /\ last.id = 0
    /\ store[0] = None
    /\ events = {}

----------------------------------------------------------------------------
\* A step of the request's transaction failed: the write batch of
\* save_changes or remove, or the send of the reload.
Failed(effects) ==
    \E i \in 1..Len(effects) :
        effects[i] \in {"save_failed", "remove_failed", "send_failed"}

\* C18: a reschedule or cancel of which a step fails (removing the old key,
\* writing the new key, sending the reload) leaves no effect: the store is as
\* before, no reload was sent, and the answer is not "matched".
C18_AllOrNothing ==
    [][(RequestStep /\ last'.op \in {"reschedule", "cancel"}
          /\ Failed(last'.effects))
        => /\ store' = store
           /\ events' = events
           /\ \A i \in 1..Len(last'.effects) : last'.effects[i] # "send_reload"
           /\ ~last'.found]_vars

----------------------------------------------------------------------------
\* The record (None: no record) that serving the request req alone leaves
\* where it finds the record v.
Served(req, v) ==
    IF v = None THEN None
    ELSE IF req.op = "reschedule"
         THEN IF RescheduleFound(v[1], req.item)
              THEN Some(RescheduleMessage(v[1], req.time, req.item))
              ELSE v
         ELSE CASE CancelOutcome(v[1], req.item) = "save" ->
                      Some(CancelUpdated(v[1], req.item))
                [] CancelOutcome(v[1], req.item) = "remove" -> None
                [] OTHER -> v

\* Both handlers have answered, and they addressed the same id and read the
\* same record of it.
BothServedSameRecord ==
    /\ \A h \in Handlers : inflight[h].phase = "done"
    /\ inflight[1].id = inflight[2].id
    /\ inflight[1].read = inflight[2].read

\* C19: two admin operations running concurrently on one id leave the record
\* that serving them one after the other, in one of the two orders, leaves.
C19_Serialized ==
    BothServedSameRecord =>
        LET a == inflight[1]
            b == inflight[2]
        IN store[a.id] \in {Served(b, Served(a, a.read)),
                            Served(a, Served(b, a.read))}

----------------------------------------------------------------------------
\* C20: the external id of a report header decodes to a header of the same
\* class with the same domain, policy_hash, seq_id and due.
C20_ReportIdRoundTrip ==
    codec.phase = "parsed" =>
        /\ codec.parsed # None
        /\ codec.parsed[1].class = codec.header.class
        /\ codec.parsed[1].event.domain = codec.header.event.domain
        /\ codec.parsed[1].event.policy_hash = codec.header.event.policy_hash
        /\ codec.parsed[1].event.seq_id = codec.header.event.seq_id
        /\ codec.parsed[1].event.due = codec.header.event.due

\* The id of a TLS header with a dotted domain, two-digit seq_id and the
\* largest due was decoded to that same header.
C20_Witness ==
    /\ codec.phase = "parsed"
    /\ codec.header.class = "TlsReportHeader"
    /\ codec.header.event.domain = <<"a", ".">>
    /\ codec.header.event.seq_id = 10
    /\ codec.header.event.due = U64Modulus - 1
    /\ codec.id = <<"t", "!", "a", ".", "!">>
                      \o FormatU64(codec.header.event.policy_hash)
                      \o <<"!", "1", "0", "!">> \o FormatU64(U64Modulus - 1)
    /\ codec.parsed = Some(codec.header)

----------------------------------------------------------------------------
\* C21: two report headers that differ in class, domain, policy_hash, seq_id
\* or due never get the same external id.
C21_ReportIdInjective ==
    codec.phase = "ids" =>
        (codec.left # codec.right => codec.left_id # codec.right_id)

\* Two headers of one class whose ids hold the same characters between the
\* same number of separators, in another order, got their ids.
C21_Witness ==
    /\ codec.phase = "ids"
    /\ codec.left.class = codec.right.class
    /\ codec.left.event.domain = <<"1", "!", "1">>
    /\ codec.left.event.policy_hash = 1
    /\ codec.right.event.domain = <<"1", "!">>
    /\ codec.right.event.policy_hash = 11
    /\ codec.left.event.seq_id = codec.right.event.seq_id
    /\ codec.left.event.due = codec.right.event.due
    /\ Len(codec.left_id) = Len(codec.right_id)
    /\ codec.left_id # codec.right_id

----------------------------------------------------------------------------
\* A field that is a decimal number below 2^64: digits without sign, after
\* a "+", or after a leading zero.
IsU64Text(f) ==
    \E n \in 0..(U64Modulus - 1) :
        f \in {FormatU64(n), <<"+">> \o FormatU64(n), <<"0">> \o FormatU64(n)}

\* The text has no class "d" or "t", lacks one of the five fields, or has a
\* policy_hash, seq_id or due that is no u64.
Malformed(f) ==
    \/ f[1] \notin {<<"d">>, <<"t">>}
    \/ Len(f) < 5
    \/ \E i \in 3..5 : ~IsU64Text(f[i])

\* C22: decoding an id text whose class is not "d" or "t", that lacks a
\* field, or whose policy_hash, seq_id or due is no u64, gives None.
C22_MalformedIdIsNone ==
    (codec.phase = "decoded" /\ Malformed(codec.fields)) =>
        codec.parsed = None

\* A DMARC id with all five fields whose due is one more than the largest
\* u64 was decoded to None.
C22_Witness ==
    /\ codec.phase = "decoded"
    /\ codec.fields = << <<"d">>, <<"a">>, <<"7">>, <<"+", "7">>,
                         FormatU64(U64Modulus) >>
    /\ codec.parsed = None

----------------------------------------------------------------------------
\* The lists: what a list was asked for and what the store held for it.

\* The ids of the stored messages that deserialize and match the filters
\* of req, in ascending order.
MatchingMessages(req) ==
    SelectSeq([i \in 1..Cardinality(DOMAIN store) |-> i - 1],
              LAMBDA id : /\ store[id] # None
                          /\ Deserializes(store[id][1])
                          /\ MessageMatches(store[id][1], req, now))

\* The stored report keys the list of req lists, in ascending key order.
MatchingReports(req) ==
    SelectSeq(SortedReports(reports),
              LAMBDA key : ReportTypeMatches(key, req) /\ ReportListed(key, req))

\* The items a list of req returns when it returns all of them.
AllItems(op, req) ==
    IF op = "list_messages"
    THEN LET ids == MatchingMessages(req)
         IN [i \in 1..Len(ids) |->
                MessageItem(ids[i], store[ids[i]][1], req.values)]
    ELSE LET keys == MatchingReports(req)
         IN [i \in 1..Len(keys) |-> queue_id(keys[i])]

ListAnswered == last.op \in {"list_messages", "list_reports"}

\* C23: a list with page >= 1 and limit >= 1 answers with the number of all
\* entries that match as total and, as items, the matches at positions
\* (page - 1) * limit to (page - 1) * limit + limit - 1 in key order.
C23_PageOfMatches ==
    (ListAnswered /\ last.req.page >= 1 /\ last.req.limit >= 1) =>
        LET all == AllItems(last.op, last.req)
            first == (last.req.page - 1) * last.req.limit
        IN /\ last.response = "ok"
           /\ last.total = Len(all)
           /\ last.items = SubSeq(all, first + 1,
                                  Min({first + last.req.limit, Len(all)}))

\* The report key is a header: its seq_id is 0.
IsHeader(key) == key.event.seq_id = 0

\* The key passes the type and domain filters of req.
PassesReportFilters(key, req) ==
    /\ req.type = Some("dmarc") => key.class = "DmarcReportHeader"
    /\ req.type = Some("tls") => key.class = "TlsReportHeader"
    /\ IsSome(req.domain) => Contains(key.event.domain, ToLower(req.domain[1]))

\* C24: the list of reports returns the id of every stored record of
\* seq_id 0 that passes the type and domain filters (all of them when it is
\* not paged), and the id of no record of another seq_id.
C24_ListsHeadersOnly ==
    (last.op = "list_reports" /\ last.response = "ok") =>
        /\ \A i \in 1..Len(last.items) :
              \E key \in reports :
                 /\ IsHeader(key) /\ PassesReportFilters(key, last.req)
                 /\ last.items[i] = queue_id(key)
        /\ last.req.limit = 0 =>
              \A key \in reports :
                 (IsHeader(key) /\ PassesReportFilters(key, last.req)) =>
                     \E i \in 1..Len(last.items) : last.items[i] = queue_id(key)

\* A stored value does not deserialize.
HasCorruptRecord ==
    \E id \in DOMAIN store : store[id] # None /\ ~Deserializes(store[id][1])

\* C30: a list of messages over a store with a record that does not
\* deserialize counts every other record that matches and, when it is not
\* paged, returns each of them.
C30_CorruptRecordSkipped ==
    (last.op = "list_messages" /\ last.response = "ok" /\ HasCorruptRecord) =>
        LET ids == MatchingMessages(last.req)
        IN /\ last.total = Len(ids)
           /\ last.req.limit = 0 =>
                 \A i \in 1..Len(ids) :
                    \E j \in 1..Len(last.items) : last.items[j].id = ids[i]

----------------------------------------------------------------------------
\* C25: GET of a report answers with the report when the id is well formed
\* and the collaborator of its class returned a report, and with not-found
\* in every other case.
C25_GetReportOrNotFound ==
    last.op = "get_report" =>
        /\ last.response \in {"ok", "not_found"}
        /\ last.response = "ok" <=>
              /\ last.id \in WellFormedIds
              /\ last.outcome = "report"
              /\ Len(last.calls) = 1
              /\ last.calls[1].fn =
                    (IF Head(last.id) = "d"
                     THEN "generate_dmarc_aggregate_report"
                     ELSE "generate_tls_aggregate_report")

\* A TLS report was assembled and returned.
C25_Witness ==
    /\ last.op = "get_report"
    /\ last.id = queue_id(ReportKey("TlsReportHeader", <<"b">>, 0, 2))
    /\ last.calls = <<[fn |-> "generate_tls_aggregate_report",
                       events |-> <<[domain |-> <<"b">>, policy_hash |-> 7,
                                     seq_id |-> 0, due |-> 2]>>]>>
    /\ last.outcome = "report"
    /\ last.response = "ok"

\* C26: DELETE of a malformed id answers not-found and deletes nothing;
\* DELETE of a well-formed id calls the DMARC deletion for class d and the
\* TLS deletion with that one event for class t, leaves no report for a GET
\* of the id to return, and answers not-found when the store held no
\* record of the report.
C26_DeleteReport ==
    last.op = "delete_report" =>
        /\ last.id \in MalformedIds =>
              last.response = "not_found" /\ last.calls = <<>>
        /\ last.id \in WellFormedIds =>
              /\ Len(last.calls) = 1
              /\ last.calls[1].fn = (IF Head(last.id) = "d"
                                     THEN "delete_dmarc_report"
                                     ELSE "delete_tls_report")
              /\ Len(last.calls[1].events) = 1
              /\ \A h \in RequestHeaders :
                    queue_id(h) = last.id =>
                        /\ last.calls[1].events[1] = h.event
                        /\ ~ReportResult(GenerateReport(reports, h, TRUE))
              /\ ~last.existed => last.response = "not_found"

----------------------------------------------------------------------------
\* A message is stored under id.
Queued(st, id) == IsSome(st[id])

\* The queue manager ends a pass in this step.
PassStep == sched.phase = "running" /\ sched'.phase = "waiting"

\* Domain i of the stored message id is TemporaryFailure and its expires
\* has passed.
ExpiredTemporary(st, id, i, clock) ==
    /\ st[id][1].domains[i].status = "TemporaryFailure"
    /\ st[id][1].domains[i].expires <= clock

\* C27: a pass of the queue manager leaves no domain TemporaryFailure whose
\* expires had passed when it ran: the domain is PermanentFailure (or the
\* message, with no pending domain left, is gone), whatever retry.due a
\* reschedule gave it.
C27_ExpiredMovedByPass ==
    [][PassStep =>
          \A id \in QueueIds :
             Queued(store, id) =>
                 \A i \in 1..Len(store[id][1].domains) :
                    ExpiredTemporary(store, id, i, now) =>
                        \/ ~Queued(store', id)
                        \/ store'[id][1].domains[i].status = "PermanentFailure"]_vars

\* A domain that a reschedule had made due later than now is
\* PermanentFailure after a pass, its expires having passed.
C27_Witness ==
    /\ sched.phase = "waiting"
    /\ Queued(store, 0)
    /\ store[0][1].domains[1].status = "PermanentFailure"
    /\ store[0][1].domains[1].expires <= now
    /\ store[0][1].domains[1].retry.due > now
    /\ store[0][1].domains[1].retry.due = MaxNow

\* The queue manager waits with a timer that is not later than the
\* soonest event key in the store.
TimerCoversSoonest ==
    IsSome(SoonestEvent(events)) =>
        /\ IsSome(sched.wake)
        /\ sched.wake[1] <= SoonestEvent(events)[1]

\* C28: a Reload sent while the queue manager waits is followed by a pass
\* that starts after it, and the queue manager never waits, without a
\* Reload in the channel, on a timer later than the soonest event in the
\* store: a reschedule to an earlier time is acted on at that time.
C28_NoWakeUpSwallowed ==
    /\ [](sched.phase = "waiting" /\ ~sched.reload => TimerCoversSoonest)
    /\ (sched.reload ~> (sched.phase = "running" /\ ~sched.reload))

\* A reschedule made the message due before the timer and its Reload
\* waits in the channel.
C28_Witness ==
    /\ sched.phase = "waiting"
    /\ sched.reload
    /\ last.op = "reschedule"
    /\ last.found
    /\ IsSome(sched.wake)
    /\ IsSome(SoonestEvent(events))
    /\ SoonestEvent(events)[1] < sched.wake[1]

\* Domain i of message id is terminal and keeps its status, retry.due and
\* expires in this step.
TerminalKept(id, i) ==
    store[id][1].domains[i].status \in Terminal =>
        /\ store'[id][1].domains[i].status = store[id][1].domains[i].status
        /\ store'[id][1].domains[i].retry.due = store[id][1].domains[i].retry.due
        /\ store'[id][1].domains[i].expires = store[id][1].domains[i].expires

\* C29: no reschedule, cancel or pass of the queue manager changes the
\* status, retry.due or expires of a domain that is Completed or
\* PermanentFailure.
C29_TerminalAbsorbing ==
    [][\A id \in QueueIds :
          (Queued(store, id) /\ Queued(store', id)) =>
              \A i \in 1..Len(store[id][1].domains) : TerminalKept(id, i)]_vars

\* A reschedule without filter moved the pending domain and left the
\* PermanentFailure domain of the same message as it was.
C29_Witness ==
    /\ last.op = "reschedule"
    /\ last.found
    /\ last.item = None
    /\ Queued(store, 0)
    /\ store[0][1].domains[1].retry.due = last.time
    /\ store[0][1].domains[2].status = "PermanentFailure"
    /\ store[0][1].domains[2].retry.due # last.time

----------------------------------------------------------------------------
\* The store failed with an I/O error while the request was served: in the
\* scan of a list, or in the write batch of a save or a remove.
StorageFailed(effects) ==
    \E i \in 1..Len(effects) :
        effects[i] \in {"iterate_failed", "save_failed", "remove_failed"}

\* C31: a list whose scan fails with a storage error, and a reschedule or
\* cancel whose write batch fails with one, answer with an error, not with a
\* successful response.
C31_StorageFailureSurfaced ==
    (last.op \in {"list_messages", "list_reports", "reschedule", "cancel"}
        /\ StorageFailed(last.effects))
    => last.response # "ok"

----------------------------------------------------------------------------
\* The request wrote the message record / sent a reload.
WroteMessage(effects) == \E i \in 1..Len(effects) : effects[i] = "set_message"
SentReload(effects) == \E i \in 1..Len(effects) : effects[i] = "send_reload"

\* C32: a reschedule or cancel that saves a changed message record also
\* sends a reload to the queue manager.
C32_SaveSendsReload ==
    [][(RequestStep /\ last'.op \in {"reschedule", "cancel"}
          /\ WroteMessage(last'.effects))
        => SentReload(last'.effects)]_vars

----------------------------------------------------------------------------
\* C33: an id that has no record in the store (its message was deleted, or
\* none was queued under it) has none after any step of a reschedule or
\* cancel: no save of a handler that read the message earlier brings the
\* record back.
C33_DeletedStaysDeleted ==
    [][\A id \in QueueIds : ~Queued(store, id) => ~Queued(store', id)]_vars

----------------------------------------------------------------------------
\* The step serves a Get, Reschedule or Cancel whose id is no number.
MalformedIdStep ==
    \/ Get(None)
    \/ \E atp \in AtParams, itemp \in LookupItems : Reschedule(None, atp, itemp)
    \/ \E itemp \in LookupItems : Cancel(None, itemp)

\* C34: a Get, Reschedule or Cancel whose id is no unsigned 64-bit number
\* answers not-found and leaves every stored message, that of id 0 included,
\* as it was.
C34_MalformedIdNotFound ==
    [][MalformedIdStep =>
          /\ last'.response = "not_found"
          /\ store' = store
          /\ events' = events]_vars

----------------------------------------------------------------------------
\* C35 as stated: a cancel with a filter leaves a recipient that is
\* Completed before it Completed, whatever its address.
C35_CompletedRecipientKept ==
    [][FilteredCancelKept =>
          LET pre == Stored(store, last'.id)
              post == Stored(store', last'.id)
          IN \A r \in 1..Len(pre.recipients) :
                pre.recipients[r].status.kind = "Completed"
                    => post.recipients[r].status = pre.recipients[r].status]_vars

\* C35 amended: a cancel with a filter changes the status of the recipients
\* whose lower-cased address contains the filter and nothing else of any
\* recipient: a recipient whose address does not contain it, Completed or
\* not, is as before, and a Completed recipient whose address contains it is
\* a PermanentFailure "Delivery canceled." after it.
C35_OnlyMatchingRecipientsChange ==
    [][FilteredCancelKept =>
          LET pre == Stored(store, last'.id)
              post == Stored(store', last'.id)
          IN /\ Len(post.recipients) = Len(pre.recipients)
             /\ \A r \in 1..Len(pre.recipients) :
                   LET a == pre.recipients[r]
                       b == post.recipients[r]
                   IN /\ [b EXCEPT !.status = a.status] = a
                      /\ ~Contains(a.address_lcase, last'.item[1]) => b = a
                      /\ (a.status.kind = "Completed"
                            /\ Contains(a.address_lcase, last'.item[1]))
                          => b.status = Canceled]_vars

\* A cancel with the filter "b" canceled the recipient "b" of a message
\* that stays stored for its recipient "A", which is as it was.
C35_Witness ==
    /\ last.op = "cancel" /\ last.found /\ last.item = Some(<<"b">>)
    /\ IsSome(store[last.id])
    /\ LET m == Stored(store, last.id)
       IN /\ m.recipients[2].address_lcase = <<"b">>
          /\ m.recipients[2].status = Canceled
          /\ m.recipients[1].address_lcase = <<"a">>
          /\ IsPending(m.recipients[1].status.kind)
          /\ m.domains[1].status = "Scheduled"

----------------------------------------------------------------------------
\* C36: a reschedule changes retry.due and expires of the domains it
\* selects and nothing else: the recipients, and the status, retry count and
\* notify.due of every domain, are as before, and so is every field of a
\* domain that is terminal or whose name does not contain the filter.
C36_RescheduleFrame ==
    [][RescheduleStep =>
          LET pre == Stored(store, last'.id)
              post == Stored(store', last'.id)
          IN /\ IsSome(store'[last'.id])
             /\ post.recipients = pre.recipients
             /\ Len(post.domains) = Len(pre.domains)
             /\ \A i \in 1..Len(pre.domains) :
                   /\ [post.domains[i] EXCEPT !.retry.due = pre.domains[i].retry.due,
                                              !.expires = pre.domains[i].expires]
                         = pre.domains[i]
                   /\ ~Matched(pre.domains[i], last'.item)
                         => post.domains[i] = pre.domains[i]
             /\ \A id \in QueueIds \ {last'.id} : store'[id] = store[id]]_vars

\* A reschedule with the filter "a" moved the domain "ab" of a message to a
\* later time; its domain "b" is as queued, and so is a recipient that is
\* not Scheduled.
C36_Witness ==
    /\ last.op = "reschedule" /\ last.found /\ last.item = Some(<<"a">>)
    /\ last.time = MaxNow
    /\ IsSome(store[last.id])
    /\ LET m == Stored(store, last.id)
       IN /\ Len(m.domains) = 2
          /\ m.domains[1].retry.due = MaxNow
          /\ m.domains[1].status = "TemporaryFailure"
          /\ m.domains[1].retry.inner = 1
          /\ m.domains[2].retry.due = 1
          /\ m.domains[2].expires = FarExpires
          /\ \E r \in 1..Len(m.recipients) :
                m.recipients[r].status.kind = "Completed"

----------------------------------------------------------------------------
\* The timestamp a before or after parameter names, None when the parameter
\* is absent (or no RFC 3339 text).
Instant(param) == IF IsSome(param) THEN param[1] ELSE None

\* The message satisfies the before and after filters of req that are
\* present: its next delivery event is earlier than before, later than after.
SatisfiesTimes(message, req, clock) ==
    /\ IsSome(Instant(req.before))
          => NextDeliveryEvent(message, clock) < Instant(req.before)[1]
    /\ IsSome(Instant(req.after))
          => NextDeliveryEvent(message, clock) > Instant(req.after)[1]

\* The message satisfies every filter of req that is present.
SatisfiesEvery(message, req, clock) ==
    /\ IsSome(req.text) => \/ Contains(message.return_path, req.text[1])
                           \/ AnyRecipientContains(message, req.text[1])
    /\ IsSome(req.from) => Contains(message.return_path, req.from[1])
    /\ IsSome(req.to) => AnyRecipientContains(message, req.to[1])
    /\ SatisfiesTimes(message, req, clock)

\* C37: the list of messages returns a message only if it satisfies every
\* filter that is present: text, from, to, before and after.
C37_FiltersConjunctive ==
    (last.op = "list_messages" /\ last.response = "ok") =>
        \A i \in 1..Len(last.items) :
           SatisfiesEvery(Stored(store, last.items[i].id), last.req, now)

----------------------------------------------------------------------------
\* C38: the list of messages with a before (after) filter returns only
\* messages whose next delivery event is earlier than before (later than
\* after), for every timestamp given, one earlier than the clock included.
C38_TimeFiltersRestrict ==
    (last.op = "list_messages" /\ last.response = "ok"
        /\ last.req.text = None /\ last.req.from = None /\ last.req.to = None) =>
        \A i \in 1..Len(last.items) :
           SatisfiesTimes(Stored(store, last.items[i].id), last.req, now)

----------------------------------------------------------------------------
\* C39: a list with limit 0 returns every entry that matches, whatever the
\* page, and counts as many as it returns; a list with page 0 returns what
\* page 1 returns, the first limit matches (all of them when limit is 0).
C39_UnpagedReturnsAll ==
    (ListAnswered /\ last.response = "ok") =>
        LET all == AllItems(last.op, last.req)
        IN /\ last.req.limit = 0 =>
                 /\ last.items = all
                 /\ last.total = Len(last.items)
           /\ last.req.page = 0 =>
                 last.items =
                    SubSeq(all, 1, IF last.req.limit = 0 THEN Len(all)
                                   ELSE Min({last.req.limit, Len(all)}))

----------------------------------------------------------------------------
\* C40: a text that parse_queued_report_id accepts is the external id of
\* the header it yields: queue_id of that header is the text itself.
C40_ReportIdCanonical ==
    (codec.phase = "decoded" /\ IsSome(codec.parsed)) =>
        queue_id(codec.parsed[1]) = codec.id

====
